---------------------------- MODULE Spec2Model ----------------------------
(***************************************************************************)
(* Credential and session lifecycle of ar-go-common: Register, VerifyEmail,*)
(* ForgotPassword, ResetPassword and Login over the users,                 *)
(* email_verifications and password_resets collections.                    *)
(*                                                                         *)
(* Each HTTP request runs on its own worker.  A handler is split at its    *)
(* store calls: every FindOne / InsertOne / UpdateOne is one atomic step,  *)
(* the local computation between two store calls belongs to the later one. *)
(* Strings are sequences of one-character strings.  A time.Time is a count *)
(* of clock ticks, Resolution ticks to the second; a NumericDate of a      *)
(* session token is a count of whole seconds.  A collection is a sequence  *)
(* in insertion order and FindOne returns the first document that matches  *)
(* its filter.                                                             *)
(***************************************************************************)
EXTENDS Integers, Sequences, FiniteSets, TLC

(***************************************************************************)
(* Bounds of the model.                                                    *)
(***************************************************************************)
MaxUsers == 1
MaxResets == 1
MaxTicks == 1
Resolution == 2
\* How many items the cache's setBuf holds before a Set is dropped.
SetBufSize == 2
\* The capacity of a CacheResponseWriterPool.
PoolSize == 1

Workers == {"w1", "w2"}

\* time.Second, time.Minute and time.Hour, in clock ticks.
Second == Resolution
Minute == 60 * Second
Hour == 60 * Minute

Deltas == {Minute, 15 * Minute, Hour, 24 * Hour}
LoginDeltas == {Minute, 15 * Minute}
TokenDeltas == {Hour, 24 * Hour}
\* By how much the clock may move on between two reads within one step.
ClockLags == {0, 1}

(***************************************************************************)
(* Program constants.                                                      *)
(***************************************************************************)
LockThreshold == 5
LockMinutes == 15
VerificationTTL == 24 * Hour
ResetTTL == 1 * Hour
SessionTTL == Hour * 24
MinSecretLen == 32

\* How far the clock advances between requests with a session token.
AuthDeltas == {SessionTTL - 1, SessionTTL, SessionTTL + Second}
SessionDeltas == {Minute}
MinPasswordLen == 16
MaxPasswordLen == 128
MinEmailLen == 6
TokenLen == 8
Argon2Version == 19

defaultPasswordParams ==
    [memory |-> 65536, iterations |-> 10, parallelism |-> 1,
     saltLength |-> 16, keyLength |-> 32]

\* A nil *time.Time; every time.Time of the model is >= 0.
NULL == 0 - 1
\* A nil error.
NoError == ""
\* A password field that holds no encoded hash.
NoCred == <<>>

\* The HMAC of a token's header and payload under a key: a different key,
\* algorithm or claim gives a different signature.
HMAC(key, alg, iat, sub, exp, jti, iss, aud) ==
    [key |-> key, alg |-> alg, iat |-> iat, sub |-> sub, exp |-> exp,
     jti |-> jti, iss |-> iss, aud |-> aud]

\* A signed token string: header alg, the claims, the signature.
NoToken ==
    [alg |-> "", iat |-> 0, sub |-> 0, exp |-> 0, jti |-> "", iss |-> "",
     aud |-> "", sig |-> HMAC(<<>>, "", 0, 0, 0, "", "", "")]

(***************************************************************************)
(* Characters and strings.                                                 *)
(***************************************************************************)
LowerC == {"a","b","c","d","e","f","g","h","i","j","k","l","m","n","o","p",
           "q","r","s","t","u","v","w","x","y","z"}
UpperC == {"A","B","C","D","E","F","G","H","I","J","K","L","M","N","O","P",
           "Q","R","S","T","U","V","W","X","Y","Z"}
DigitC == {"0","1","2","3","4","5","6","7","8","9"}
SpecialC == {"!","#","$","%","+","-",".","_","@"}
SpaceC == {" ", "\t", "\n", "\r"}
ControlC == {"NUL"}

Uppers == <<"A","B","C","D","E","F","G","H","I","J","K","L","M","N","O","P",
            "Q","R","S","T","U","V","W","X","Y","Z">>
Lowers == <<"a","b","c","d","e","f","g","h","i","j","k","l","m","n","o","p",
            "q","r","s","t","u","v","w","x","y","z">>

ToLowerC(c) ==
    IF c \in UpperC THEN Lowers[CHOOSE i \in 1..26 : Uppers[i] = c] ELSE c

ToLower(s) == [i \in 1..Len(s) |-> ToLowerC(s[i])]

Contains(s, pat) ==
    \E i \in 0..(Len(s) - Len(pat)) :
        \A j \in 1..Len(pat) : s[i + j] = pat[j]

RECURSIVE DropControl(_)
DropControl(s) ==
    IF s = <<>> THEN <<>>
    ELSE IF Head(s) \in ControlC THEN DropControl(Tail(s))
    ELSE <<Head(s)>> \o DropControl(Tail(s))

RECURSIVE TrimLeft(_)
TrimLeft(s) ==
    IF s # <<>> /\ Head(s) \in SpaceC THEN TrimLeft(Tail(s)) ELSE s

RECURSIVE TrimRight(_)
TrimRight(s) ==
    IF s # <<>> /\ s[Len(s)] \in SpaceC
    THEN TrimRight(SubSeq(s, 1, Len(s) - 1)) ELSE s

\* strings.Map dropping control characters, then strings.TrimSpace
SanitizeInput(input) == TrimRight(TrimLeft(DropControl(input)))

\* ^[a-zA-Z0-9._%+-]+@[a-zA-Z0-9.-]+\.[a-zA-Z]{2,}$
emailRegex(s) ==
    \E at \in 2..Len(s), dot \in 1..Len(s) :
        /\ s[at] = "@"
        /\ s[dot] = "."
        /\ at + 1 < dot
        /\ dot + 2 <= Len(s)
        /\ \A i \in 1..(at - 1) :
              s[i] \in LowerC \cup UpperC \cup DigitC \cup {".","_","%","+","-"}
        /\ \A i \in (at + 1)..(dot - 1) :
              s[i] \in LowerC \cup UpperC \cup DigitC \cup {".","-"}
        /\ \A i \in (dot + 1)..Len(s) : s[i] \in LowerC \cup UpperC

validateEmail(email) ==
    IF Len(email) < MinEmailLen THEN "email must be at least 6 characters long"
    ELSE IF ~emailRegex(email)
    THEN "email can only contain letters, numbers, underscores, and hyphens"
    ELSE NoError

weakPatterns ==
    { <<"p","a","s","s","w","o","r","d">>, <<"1","2","3","4","5","6">>,
      <<"q","w","e","r","t","y">>, <<"a","d","m","i","n">>,
      <<"l","e","t","m","e","i","n">> }

validatePassword(password) ==
    IF Len(password) < MinPasswordLen
    THEN "password must be at least 16 characters long"
    ELSE IF Len(password) > MaxPasswordLen
    THEN "password must be less than 128 characters"
    ELSE IF \/ ~\E i \in 1..Len(password) : password[i] \in UpperC
            \/ ~\E i \in 1..Len(password) : password[i] \in LowerC
            \/ ~\E i \in 1..Len(password) : password[i] \in DigitC
            \/ ~\E i \in 1..Len(password) : password[i] \in SpecialC
    THEN "password must contain at least one uppercase letter, one lowercase letter, one number, and one special character"
    ELSE IF \E pat \in weakPatterns : Contains(ToLower(password), pat)
    THEN "password contains common weak patterns"
    ELSE NoError

validateVerificationToken(token) ==
    IF Len(token) # TokenLen
    THEN "verification token must be exactly 8 digits"
    ELSE IF \E i \in 1..Len(token) : token[i] \notin DigitC
    THEN "verification token must contain only numbers"
    ELSE NoError


(***************************************************************************)
(* Credentials.  A string is a sequence of characters, a []byte a sequence *)
(* of numbers in 0..255.  TLC's integers are 32 bits wide and signed: the  *)
(* uint32 parameters the model draws stay below 2^31.                      *)
(***************************************************************************)
\* The characters of a password, by code point, from ' ' (32) to '~' (126).
Ascii ==
    <<
      " ","!","\"","#","$","%","&","'","(",")","*","+",",","-",".","/",
      "0","1","2","3","4","5","6","7","8","9",":",";","<","=",">","?",
      "@","A","B","C","D","E","F","G","H","I","J","K","L","M","N","O",
      "P","Q","R","S","T","U","V","W","X","Y","Z","[","\\","]","^","_",
      "BACKTICK","a","b","c","d","e","f","g","h","i","j","k","l","m","n","o",
      "p","q","r","s","t","u","v","w","x","y","z","{","|","}","~"
    >>

CharCode(c) ==
    IF \E i \in 1..Len(Ascii) : Ascii[i] = c
    THEN 31 + (CHOOSE i \in 1..Len(Ascii) : Ascii[i] = c)
    ELSE 0

\* A panic unwinding the goroutine: what a call returns that did not return.
Panic == <<0 - 1>>

\* rand.Read returned an error: no bytes.
ReadError == <<0 - 2>>

DefaultSalt == [i \in 1..defaultPasswordParams.saltLength |-> (37 * i) % 256]

\* The salts GenerateRandomBytes(defaultPasswordParams.saltLength) draws.
Salts == {DefaultSalt}

\* GenerateRandomBytes(n): n bytes of crypto/rand, or its error.
GenerateRandomBytes(n) ==
    {[i \in 1..n |-> 0], [i \in 1..n |-> 255], [i \in 1..n |-> (37 * i) % 256],
     ReadError}

RECURSIVE Absorb(_, _)
Absorb(h, xs) ==
    IF xs = <<>> THEN h
    ELSE Absorb(((h * 31) + Head(xs) + 1) % 65521, Tail(xs))

\* argon2.IDKey: it panics when time < 1 or threads < 1; otherwise the key
\* is keyLen bytes, a deterministic function of all six arguments.  The
\* digest stands for Argon2id: it gives different keys for the different
\* arguments the model draws.
IDKey(password, salt, iterations, memory, parallelism, keyLength) ==
    IF iterations < 1 \/ parallelism < 1 THEN Panic
    ELSE LET seed == Absorb(Absorb(Absorb(7,
                        [i \in 1..Len(password) |-> CharCode(password[i])]),
                        salt),
                        <<iterations, memory % 65521, parallelism, keyLength>>)
         IN [i \in 1..keyLength |-> ((seed * i) + (seed \div 256) + (i * i)) % 256]

\* The alphabet of base64.StdEncoding.
encodeStd ==
    <<
      "A","B","C","D","E","F","G","H","I","J","K","L","M","N","O","P",
      "Q","R","S","T","U","V","W","X","Y","Z","a","b","c","d","e","f",
      "g","h","i","j","k","l","m","n","o","p","q","r","s","t","u","v",
      "w","x","y","z","0","1","2","3","4","5","6","7","8","9","+","/"
    >>

\* base64.StdEncoding.EncodeToString: the encoding with its '=' padding.
EncodeToStringPadded(src) ==
    LET n == Len(src)
        Sextet(i) ==
            LET bit == 6 * (i - 1)
                b == (bit \div 8) + 1
                window == (src[b] * 256) + (IF b + 1 <= n THEN src[b + 1] ELSE 0)
                shift == 10 - (bit % 8)
            IN (window \div 2^shift) % 64
    IN [i \in 1..(((n * 8) + 5) \div 6) |-> encodeStd[Sextet(i) + 1]]
         \o [i \in 1..((3 - (n % 3)) % 3) |-> "="]

\* base64.RawStdEncoding.EncodeToString: the bits of src in groups of six,
\* the last group filled with zeros, no padding.
EncodeToString(src) ==
    LET n == Len(src)
        Sextet(i) ==
            LET bit == 6 * (i - 1)
                b == (bit \div 8) + 1
                window == (src[b] * 256) + (IF b + 1 <= n THEN src[b + 1] ELSE 0)
                shift == 10 - (bit % 8)
            IN (window \div 2^shift) % 64
    IN [i \in 1..(((n * 8) + 5) \div 6) |-> encodeStd[Sextet(i) + 1]]

\* The decode map: the value of a character of the alphabet, 255 for any
\* other.
decodeMap(c) ==
    IF \E i \in 1..64 : encodeStd[i] = c
    THEN (CHOOSE i \in 1..64 : encodeStd[i] = c) - 1
    ELSE 255

RECURSIVE DropNewlines(_)
DropNewlines(s) ==
    IF s = <<>> THEN <<>>
    ELSE IF Head(s) \in {"\n", "\r"} THEN DropNewlines(Tail(s))
    ELSE <<Head(s)>> \o DropNewlines(Tail(s))

\* base64.RawStdEncoding.Strict().DecodeString: newlines are skipped, '='
\* and every character outside the alphabet are corrupt input, and so is a
\* last group of one character or one whose unused bits are not zero.
DecodeString(str) ==
    LET in == DropNewlines(str)
        n == Len(in)
        v == [i \in 1..n |-> decodeMap(in[i])]
        Octet(j) ==
            LET bit == 8 * (j - 1)
                k == (bit \div 6) + 1
                window == (v[k] * 64) + v[k + 1]
                shift == 4 - (bit % 6)
            IN (window \div 2^shift) % 256
    IN
    IF \E i \in 1..n : v[i] = 255
    THEN [err |-> "base64.CorruptInputError", bytes |-> <<>>]
    ELSE IF n % 4 = 1
    THEN [err |-> "base64.CorruptInputError", bytes |-> <<>>]
    ELSE IF n % 4 = 2 /\ v[n] % 16 # 0
    THEN [err |-> "base64.CorruptInputError", bytes |-> <<>>]
    ELSE IF n % 4 = 3 /\ v[n] % 4 # 0
    THEN [err |-> "base64.CorruptInputError", bytes |-> <<>>]
    ELSE [err |-> NoError, bytes |-> [j \in 1..((n * 6) \div 8) |-> Octet(j)]]

Digits == <<"0","1","2","3","4","5","6","7","8","9">>

\* %d of fmt.Sprintf for an unsigned number.
RECURSIVE FormatUint(_)
FormatUint(n) ==
    IF n < 10 THEN <<Digits[n + 1]>>
    ELSE FormatUint(n \div 10) \o <<Digits[(n % 10) + 1]>>

\* fmt.Sprintf("$argon2id$v=%d$m=%d,t=%d,p=%d$%s$%s", ...)
SprintfEncodedHash(version, memory, iterations, parallelism, b64Salt, b64Hash) ==
    <<"$","a","r","g","o","n","2","i","d","$","v","=">> \o FormatUint(version)
        \o <<"$","m","=">> \o FormatUint(memory)
        \o <<",","t","=">> \o FormatUint(iterations)
        \o <<",","p","=">> \o FormatUint(parallelism)
        \o <<"$">> \o b64Salt \o <<"$">> \o b64Hash

\* GenerateFromPassword with the bytes GenerateRandomBytes drew: the error
\* of rand.Read, the panic of argon2.IDKey, or the encoded hash.
GenerateFromPassword(password, p, salt) ==
    LET hash == IDKey(password, salt, p.iterations, p.memory, p.parallelism,
                      p.keyLength)
    IN
    IF salt = ReadError
    THEN [encodedHash |-> <<>>, err |-> "rand.Read", panic |-> FALSE]
    ELSE IF hash = Panic
    THEN [encodedHash |-> <<>>, err |-> NoError, panic |-> TRUE]
    ELSE [encodedHash |->
             SprintfEncodedHash(Argon2Version, p.memory, p.iterations,
                                p.parallelism, EncodeToString(salt),
                                EncodeToString(hash)),
          err |-> NoError, panic |-> FALSE]

\* strings.Split(s, sep) for a separator of one character.
RECURSIVE Split(_, _)
Split(str, sep) ==
    IF \A i \in 1..Len(str) : str[i] # sep THEN <<str>>
    ELSE LET i == CHOOSE k \in 1..Len(str) :
                    str[k] = sep /\ \A j \in 1..(k - 1) : str[j] # sep
         IN <<SubSeq(str, 1, i - 1)>> \o Split(SubSeq(str, i + 1, Len(str)), sep)

\* fmt.Sscanf, the literal part of a format: the input has to go on with it.
ScanLiteral(in, lit) ==
    IF in.err # NoError THEN in
    ELSE IF Len(in.rest) >= Len(lit) /\ SubSeq(in.rest, 1, Len(lit)) = lit
    THEN [in EXCEPT !.rest = SubSeq(in.rest, Len(lit) + 1, Len(in.rest))]
    ELSE [in EXCEPT !.err = "fmt: input does not match format"]

RECURSIVE ParseDigits(_, _)
ParseDigits(acc, ds) ==
    IF ds = <<>> THEN acc
    ELSE ParseDigits((acc * 10) + (CHOOSE d \in 0..9 : Digits[d + 1] = Head(ds)),
                     Tail(ds))

\* fmt.Sscanf, a %d verb: leading blanks are skipped, a sign is read where
\* the target is signed, then the digits that follow, at least one; a number
\* that does not fit the target is an error.  What follows the last verb of
\* the format is not read.
ScanInteger(in, signed, limit) ==
    LET body == TrimLeft(in.rest)
        rest == IF signed /\ body # <<>> /\ Head(body) \in {"+", "-"}
                THEN Tail(body) ELSE body
        negative == signed /\ body # <<>> /\ Head(body) = "-"
        k == IF \E i \in 1..Len(rest) : rest[i] \notin DigitC
             THEN (CHOOSE i \in 1..Len(rest) :
                      rest[i] \notin DigitC
                      /\ \A j \in 1..(i - 1) : rest[j] \in DigitC) - 1
             ELSE Len(rest)
        value == ParseDigits(0, SubSeq(rest, 1, k))
    IN
    IF in.err # NoError THEN in
    ELSE IF k = 0
    THEN [in EXCEPT !.err = "fmt: expected integer"]
    ELSE IF value >= limit
    THEN [in EXCEPT !.err = "fmt: integer overflow"]
    ELSE [in EXCEPT !.rest = SubSeq(rest, k + 1, Len(rest)),
                    !.values = Append(@, IF negative THEN 0 - value ELSE value)]

Scanning(str) == [err |-> NoError, rest |-> str, values |-> <<>>]

\* What DecodeHash returns with an error: nil, nil, nil, err.  A pointer or
\* a slice it returns is the set of what it holds: empty for nil.
DecodeFailure(err) == [p |-> {}, salt |-> {}, hash |-> {}, err |-> err]

\* DecodeHash once both base64 fields are decoded.
DecodeHashKey(params, salt, hash) ==
    IF salt.err # NoError THEN DecodeFailure(salt.err)
    ELSE IF hash.err # NoError THEN DecodeFailure(hash.err)
    ELSE [p |-> {[memory |-> params.values[1],
                  iterations |-> params.values[2],
                  parallelism |-> params.values[3],
                  saltLength |-> Len(salt.bytes),
                  keyLength |-> Len(hash.bytes)]},
          salt |-> {salt.bytes}, hash |-> {hash.bytes}, err |-> NoError]

\* DecodeHash from the Sscanf of the costs on.
DecodeHashParams(vals, params) ==
    IF params.err # NoError THEN DecodeFailure(params.err)
    ELSE DecodeHashKey(params, DecodeString(vals[5]), DecodeString(vals[6]))

\* DecodeHash from the Sscanf of the version on.
DecodeHashVersion(vals, version) ==
    IF version.err # NoError THEN DecodeFailure(version.err)
    ELSE IF version.values[1] # Argon2Version
    THEN DecodeFailure("ErrIncompatibleVersion")
    ELSE DecodeHashParams(vals,
            ScanInteger(
              ScanLiteral(
                ScanInteger(
                  ScanLiteral(
                    ScanInteger(ScanLiteral(Scanning(vals[4]), <<"m","=">>),
                                FALSE, 2^30),
                    <<",","t","=">>),
                  FALSE, 2^30),
                <<",","p","=">>),
              FALSE, 2^8))

\* DecodeHash from the count of the fields on.
DecodeHashVals(vals) ==
    IF Len(vals) # 6 THEN DecodeFailure("ErrInvalidHash")
    ELSE DecodeHashVersion(vals,
            ScanInteger(ScanLiteral(Scanning(vals[3]), <<"v","=">>),
                        TRUE, 2^30))

DecodeHash(encodedHash) == DecodeHashVals(Split(encodedHash, "$"))

\* subtle.ConstantTimeCompare(x, y) == 1
ConstantTimeCompare(x, y) ==
    Len(x) = Len(y) /\ \A i \in 1..Len(x) : x[i] = y[i]

\* ComparePasswordAndHash once the key of the password is derived.
CompareKeys(hash, otherHash) ==
    IF otherHash = Panic
    THEN [match |-> FALSE, err |-> NoError, panic |-> TRUE]
    ELSE [match |-> ConstantTimeCompare(hash, otherHash), err |-> NoError,
          panic |-> FALSE]

\* ComparePasswordAndHash from the result d of DecodeHash on.
CompareDecoded(password, d) ==
    LET p == CHOOSE x \in d.p : TRUE
        salt == CHOOSE x \in d.salt : TRUE
        hash == CHOOSE x \in d.hash : TRUE
    IN
    IF d.err # NoError THEN [match |-> FALSE, err |-> d.err, panic |-> FALSE]
    ELSE CompareKeys(hash, IDKey(password, salt, p.iterations, p.memory,
                                 p.parallelism, p.keyLength))

ComparePasswordAndHash(password, encodedHash) ==
    CompareDecoded(password, DecodeHash(encodedHash))

(***************************************************************************)
(* Requests the model draws.                                               *)
(***************************************************************************)
EmailA == <<"a","@","b",".","i","o">>
EmailB == <<"c","@","b",".","i","o">>
PwA == <<"A","a","1","!","x","x","x","x","x","x","x","x","x","x","x","x">>
PwB == <<"B","b","2","#","y","y","y","y","y","y","y","y","y","y","y","y">>
CodeA == <<"1","0","0","0","0","0","0","0">>
CodeB == <<"9","9","9","9","9","9","9","9">>
HexDigits == <<"1","2","3","4","5","6","7","8","9","a","b","c","d","e","f">>

RegisterEmails == {EmailA, <<"a","@","b">>}
RegisterPasswords == {PwA, <<"A","a","1","!">>}
LoginEmails == {EmailA, EmailB, <<" ">> \o EmailA}
LoginPasswords == {PwA, PwB}
VerifyTokens == {CodeA, CodeB, <<>>, <<"1","2","3","4","5","6","7","x">>}
VerificationCodes == {CodeA, CodeB}
\* hex.EncodeToString of 32 random bytes, shortened to two characters
\* A key that is not the server's.
GuessKey == [i \in 1..MinSecretLen |-> "g"]

\* The environment's JWT_SECRET: set and long enough, one byte short, unset.
GoodSecret == [i \in 1..MinSecretLen |-> "k"]
ShortSecret == [i \in 1..(MinSecretLen - 1) |-> "k"]
Secrets == {GoodSecret, ShortSecret, <<>>}

ResetSecrets == {<<"a", HexDigits[i]>> : i \in 1..MaxResets}
ResetTokens == ResetSecrets \cup {<<>>}
NewPasswords == {PwB, <<"B","b","2","#">>}
\* New passwords a reset form carries: one as it is typed at a login, and
\* the same with a blank behind it and with a blank in front.
TypedPasswords == {PwB, PwB \o <<" ">>, <<" ">> \o PwB}

\* The credentials the handlers can write: GenerateFromPassword of a password
\* a form can carry, under defaultPasswordParams, with a salt of Salts.
Hashes ==
    {[password |-> pw, salt |-> s,
      result |-> GenerateFromPassword(pw, defaultPasswordParams, s)] :
        pw \in RegisterPasswords \cup NewPasswords,
        s \in Salts \cup GenerateRandomBytes(defaultPasswordParams.saltLength)}

\* Parameters an earlier release hashed with: the present ones with a
\* shorter salt and key, and ones that differ in one cost or in all three.
LegacyParamSets ==
    {[defaultPasswordParams EXCEPT !.saltLength = 8, !.keyLength = 16],
     [defaultPasswordParams EXCEPT !.iterations = 1],
     [defaultPasswordParams EXCEPT !.parallelism = 2, !.keyLength = 16],
     [memory |-> 8, iterations |-> 1, parallelism |-> 2, saltLength |-> 8,
      keyLength |-> 32]}

\* The credential of an account that release created for password PwA.
LegacyCredential(p) ==
    GenerateFromPassword(PwA, p, [i \in 1..p.saltLength |-> (11 * i) % 256]).encodedHash

LegacyCredentials == {LegacyCredential(p) : p \in LegacyParamSets}

\* The result of the entry of a table that was computed once, or the call
\* itself where the table has no entry.
Found(entries, computed) ==
    IF entries = {} THEN computed ELSE (CHOOSE e \in entries : TRUE).result

\* GenerateFromPassword(password, defaultPasswordParams) as Register and
\* ResetPassword call it, read from Hashes where it was computed once.
Hashed(password, salt) ==
    Found({h \in Hashes : h.password = password /\ h.salt = salt},
          GenerateFromPassword(password, defaultPasswordParams, salt))

\* ComparePasswordAndHash of every password a login form can carry against
\* every credential of Hashes and every legacy credential.
Comparisons ==
    {[password |-> pw, encodedHash |-> h,
      result |-> ComparePasswordAndHash(pw, h)] :
        pw \in LoginPasswords \cup TypedPasswords,
        h \in {x.result.encodedHash : x \in Hashes} \cup LegacyCredentials}

\* DecodeHash of every credential of Hashes and every legacy credential.
Decodings ==
    {[encodedHash |-> h, result |-> DecodeHash(h)] :
        h \in {x.result.encodedHash : x \in Hashes} \cup LegacyCredentials}

\* DecodeHash(encodedHash) as RehashPasswordIfNeeded calls it, read from
\* Decodings where it was computed once.
Decoded(encodedHash) ==
    Found({d \in Decodings : d.encodedHash = encodedHash},
          DecodeHash(encodedHash))

\* ComparePasswordAndHash(password, encodedHash) as Login calls it, read from
\* Comparisons where it was computed once.
Compared(password, encodedHash) ==
    Found({c \in Comparisons :
              c.password = password /\ c.encodedHash = encodedHash},
          ComparePasswordAndHash(password, encodedHash))

(***************************************************************************)
(* State.                                                                  *)
(***************************************************************************)
VARIABLES
    JWT_SECRET, \* os.Getenv("JWT_SECRET")
    now,        \* time.Now(), in clock ticks
    ticks,      \* how often the clock has advanced
    users,      \* collection "users"
    verifs,     \* collection "email_verifications"
    resets,     \* collection "password_resets"
    pc,         \* where each worker's handler stands
    local,      \* the handler's local variables
    resp,       \* the response the worker's last request received
    cause,      \* history: the branch that produced that response, the
                \* secret (token or password) the request presented, and
                \* whether it called ComparePasswordAndHash
    hist,       \* history, per token record: the requests that redeemed it
                \* with a 200, and whether an account update failed on it
    streak,     \* history, per account: wrong-password logins since the
                \* account was last fresh, and the time of the last one
    tasks,      \* the goroutines Login has started and that have not run
    cache,      \* the ristretto.Cache: its store, its policy and its setBuf
    call,       \* the last call of a library function and what it returned
    writerPool, \* the CacheResponseWriterPool: the writers in its channel
    writer,     \* the CacheResponseWriter each worker holds
    served      \* history, per cache key: the responses of wrapped handlers
                \* that CacheMiddleware handed to the cache

vars == <<JWT_SECRET, now, ticks, users, verifs, resets, pc, local, resp, cause, hist,
          streak, tasks, cache, call, writerPool, writer, served>>

\* The state of the response cache's middleware.
http == <<writerPool, writer, served>>

NewUser(id, email, hashedPassword) ==
    [id |-> id, email |-> email, password |-> hashedPassword,
     is_verified |-> FALSE, verified_at |-> NULL,
     login_attempts |-> 0, locked_until |-> NULL, last_login_at |-> NULL]

NoUser == NewUser(0, <<>>, NoCred)

NoLocal ==
    [user |-> NoUser, rec |-> 0, t |-> 0, password |-> <<>>, token |-> <<>>]

\* What the client receives: the status, the message, and the token and
\* user id of a login; user_id is also the id Authenticate hands on.
Response(code, body) ==
    [code |-> code, body |-> body, token |-> NoToken, user_id |-> 0]

NoResponse == Response(0, "")

Cause(why, secret, compared) ==
    [why |-> why, secret |-> secret, compared |-> compared,
     token |-> NoToken, at |-> 0]

NoCause == Cause("none", <<>>, FALSE)

NoHistory == [won |-> 0, failed |-> FALSE]

\* The keys the callers of the cache use.
CacheKeys == {"test:key", "list:airlines"}

\* The keys CacheMiddleware uses.
HTTPKeys == {"http:/a:b:c"}

\* Every key of the store.
StoreKeys == CacheKeys \cup HTTPKeys

\* A worker that holds no CacheResponseWriter.
NoWriter ==
    [ResponseWriter |-> "", body |-> <<>>, cap |-> 0, statusCode |-> 0,
     headers |-> {}]

\* NewCacheResponseWriterPool(size): make(chan *CacheResponseWriter, size),
\* the channel as the sequence of the writers it buffers.
NewCacheResponseWriterPool(size) == [pool |-> <<>>, size |-> size]

\* No item under a key of the store.
NoItem == [present |-> FALSE, value |-> <<>>, expiration |-> 0]

\* History, per key: what the callers of the cache were last told about it.
NeverSet == [state |-> "never", value |-> <<>>, codec |-> "", expiration |-> 0]

\* ristretto.NewCache: nothing stored, nothing tracked by the policy, nothing
\* buffered.  said is history.
NewCache ==
    [store |-> [k \in StoreKeys |-> NoItem], policy |-> {}, setBuf |-> <<>>,
     said |-> [k \in StoreKeys |-> NeverSet]]

NoCall == [op |-> "none"]

FreshStreak == [n |-> 0, at |-> 0, cleared |-> FALSE]

Init ==
    /\ JWT_SECRET \in Secrets
    /\ now = 0
    /\ ticks = 0
    /\ users = <<>>
    /\ verifs = <<>>
    /\ resets = <<>>
    /\ pc = [w \in Workers |-> "idle"]
    /\ local = [w \in Workers |-> NoLocal]
    /\ resp = [w \in Workers |-> NoResponse]
    /\ cause = [w \in Workers |-> NoCause]
    /\ hist = [verif |-> <<>>, reset |-> <<>>]
    /\ streak = <<>>
    /\ tasks = {}
    /\ cache = NewCache
    /\ call = NoCall
    /\ writerPool = NewCacheResponseWriterPool(PoolSize)
    /\ writer = [w \in Workers |-> NoWriter]
    /\ served = [k \in HTTPKeys |-> {}]

\* FindOne over a collection, given the indices of the documents that match
\* the filter: the index of the first of them, or 0 (ErrNoDocuments).
FindOne(matching) ==
    IF matching = {} THEN 0
    ELSE CHOOSE i \in matching : \A j \in matching : i <= j

\* The handler returns: the worker is free again and holds the response.
RespondAbout(w, r, c) ==
    /\ pc' = [pc EXCEPT ![w] = "idle"]
    /\ local' = [local EXCEPT ![w] = NoLocal]
    /\ resp' = [resp EXCEPT ![w] = r]
    /\ cause' = [cause EXCEPT ![w] = c]

Respond(w, r, why) == RespondAbout(w, r, Cause(why, <<>>, FALSE))

\* The handler goes on to its next store call.
Goto(w, label, l) ==
    /\ pc' = [pc EXCEPT ![w] = label]
    /\ local' = [local EXCEPT ![w] = l]
    /\ resp' = [resp EXCEPT ![w] = NoResponse]
    /\ cause' = [cause EXCEPT ![w] = NoCause]

Tick(d) ==
    /\ ticks < MaxTicks
    /\ now' = now + d
    /\ ticks' = ticks + 1
    /\ UNCHANGED <<http, tasks, cache, call, JWT_SECRET, users, verifs, resets, pc, local, resp, cause, hist, streak>>

ValidateJWTSecret ==
    IF JWT_SECRET = <<>>
    THEN "JWT_SECRET environment variable is required"
    ELSE IF Len(JWT_SECRET) < MinSecretLen
    THEN "JWT_SECRET must be at least 32 characters long"
    ELSE NoError

\* time.Time.Unix(): whole seconds.
Unix(t) == t \div Second

\* The process is started again with another environment; the store stays.
Restart(secret) ==
    /\ \A w \in Workers : pc[w] = "idle"
    /\ JWT_SECRET' = secret
    /\ UNCHANGED <<http, tasks, cache, call, now, ticks, users, verifs, resets, pc, local, resp, cause,
                   hist, streak>>

\* The clock moves on within its second.
Moment ==
    /\ now % Second = 0
    /\ now' = now + 1
    /\ UNCHANGED <<http, tasks, cache, call, JWT_SECRET, ticks, users, verifs, resets, pc, local, resp,
                   cause, hist, streak>>

(***************************************************************************)
(* Any handler: ValidateAndBindJSON cannot decode the request body.        *)
(***************************************************************************)
BadRequest(w) ==
    /\ pc[w] = "idle"
    /\ Respond(w, Response(400, "Bad Request"), "bad_json")
    /\ UNCHANGED <<http, tasks, cache, call, JWT_SECRET, now, ticks, users, verifs, resets, hist, streak>>

(***************************************************************************)
(* Mail.  SendVerificationEmail, SendWelcomeEmail, SendPasswordResetEmail  *)
(* and SendPasswordChangeConfirmationEmail return nil or an error: no SES  *)
(* client, no SES_FROM_EMAIL, or what SES answered.                        *)
(***************************************************************************)
SendOutcomes == {NoError, "SES client not initialized"}

\* if err := Send...(...); err != nil { log.Printf(...) }: call keeps the
\* line that was logged last.
LogSend(send, mail) ==
    call' = IF mail = NoError THEN call
            ELSE [op |-> "log.Printf", send |-> send, err |-> mail]

\* A handler that answers 500 when its mail was not sent.
AfterSendFailing(response, mail) ==
    IF mail = NoError THEN response ELSE [response EXCEPT !.code = 500]

\* What the handler answers once Send has returned: the response it had
\* ready, whatever Send returned.
AfterSend(response, mail) == response

(***************************************************************************)
(* Register                                                                *)
(***************************************************************************)
\* Validation, uuid.NewV7, generateVerificationToken, GenerateFromPassword
\* and the FindOne for an existing account with the email.
RegisterChecks(w, email, password, code, salt) ==
    LET mail == SanitizeInput(email) IN
    /\ pc[w] = "idle"
    /\ IF ValidateJWTSecret # NoError
       THEN Respond(w, Response(500, "Server configuration error"),
                    "bad_secret")
       ELSE IF validateEmail(mail) # NoError
       THEN Respond(w, Response(400, validateEmail(mail)), "bad_email")
       ELSE IF validatePassword(password) # NoError
       THEN Respond(w, Response(400, validatePassword(password)),
                    "bad_password")
       ELSE IF FindOne({i \in DOMAIN users : users[i].email = mail}) # 0
       THEN Respond(w, Response(400, "Registration failed"), "email_taken")
       ELSE Goto(w, "register_insert",
                 [NoLocal EXCEPT
                    !.user = NewUser(0, mail,
                        Hashed(password, salt).encodedHash),
                    !.token = code])
    /\ UNCHANGED <<http, tasks, cache, call, JWT_SECRET, now, ticks, users, verifs, resets, hist, streak>>

\* Register, while the collection holds fewer than MaxUsers accounts.
RegisterBegin(w, email, password, code, salt) ==
    /\ Len(users) + Cardinality({v \in Workers : pc[v] = "register_insert"})
          < MaxUsers
    /\ RegisterChecks(w, email, password, code, salt)

\* InsertOne(user); the document's _id is its place in the collection.
RegisterInsert(w) ==
    /\ pc[w] = "register_insert"
    /\ LET user == [local[w].user EXCEPT !.id = Len(users) + 1] IN
       /\ users' = Append(users, user)
       /\ streak' = Append(streak, FreshStreak)
       /\ Goto(w, "register_verification", [local[w] EXCEPT !.user = user])
    /\ UNCHANGED <<http, tasks, cache, call, JWT_SECRET, now, ticks, verifs, resets, hist>>

NewActionToken(userID, email, token, t, ttl) ==
    [user_id |-> userID, email |-> email, token |-> token,
     expires_at |-> t + ttl, created_at |-> t,
     used |-> FALSE, used_at |-> NULL]

CreateEmailVerification(userID, email, token) ==
    /\ verifs' = Append(verifs,
                    NewActionToken(userID, email, token, now, VerificationTTL))
    /\ hist' = [hist EXCEPT !.verif = Append(@, NoHistory)]

\* CreateEmailVerification, SendVerificationEmail and the 200.
RegisterCreateVerification(w, mail) ==
    /\ pc[w] = "register_verification"
    /\ CreateEmailVerification(local[w].user.id, local[w].user.email,
                               local[w].token)
    /\ Respond(w, AfterSend(Response(200, "Registration successful. Please check your email to verify your account."), mail),
               "registered")
    /\ UNCHANGED <<http, tasks, cache, JWT_SECRET, now, ticks, users, resets, streak>>
    /\ LogSend("SendVerificationEmail", mail)

(***************************************************************************)
(* Action tokens: what VerifyEmail and ResetPassword share.                *)
(***************************************************************************)
RedeemableInclusive(rec, token, t) ==
    /\ rec.token = token
    /\ rec.used = FALSE
    /\ rec.expires_at >= t

RedeemableAgain(rec, token, t) ==
    /\ rec.token = token
    /\ rec.expires_at > t

\* The filter both handlers give FindOne:
\* token = the secret, used = false, expires_at > time.Now().
Redeemable(rec, token, t) ==
    /\ rec.token = token
    /\ rec.used = FALSE
    /\ rec.expires_at > t

MarkUsedForgotten(rec, t) == [rec EXCEPT !.used_at = t]

MarkUsedUnstamped(rec, t) == [rec EXCEPT !.used = TRUE]

\* $set used = true, used_at = now
MarkUsed(rec, t) == [rec EXCEPT !.used = TRUE, !.used_at = t]

\* History: one more request redeemed the record (counted up to 2).
Won(h) == [h EXCEPT !.won = IF @ < 2 THEN @ + 1 ELSE @]

\* History: an account update failed on the record.
Failed(h) == [h EXCEPT !.failed = TRUE]


(***************************************************************************)
(* VerifyEmail                                                             *)
(***************************************************************************)
VerifyEmailSuccess ==
    Response(200, "Email verified successfully! You can now log in.")

\* Sanitizing, validation and the FindOne in email_verifications.
VerifyEmailBegin(w, token) ==
    LET tok == SanitizeInput(token)
        found == FindOne({i \in DOMAIN verifs : Redeemable(verifs[i], tok, now)})
    IN
    /\ pc[w] = "idle"
    /\ IF tok = <<>>
       THEN Respond(w, Response(400, "Verification token is required"),
                    "token_required")
       ELSE IF validateVerificationToken(tok) # NoError
       THEN Respond(w, Response(400, validateVerificationToken(tok)),
                    "bad_token")
       ELSE IF found = 0
       THEN RespondAbout(w,
                Response(400, "Invalid or expired verification token"),
                Cause("token_not_found", tok, FALSE))
       ELSE Goto(w, "verify_user",
                 [NoLocal EXCEPT !.rec = found, !.token = tok])
    /\ UNCHANGED <<http, tasks, cache, call, JWT_SECRET, now, ticks, users, verifs, resets, hist, streak>>

\* FindOne in users: _id = verification.UserID, is_verified = false.
VerifyEmailFindUser(w) ==
    LET uid == verifs[local[w].rec].user_id
        found == FindOne({i \in DOMAIN users :
                     users[i].id = uid /\ users[i].is_verified = FALSE})
    IN
    /\ pc[w] = "verify_user"
    /\ IF found = 0
       THEN RespondAbout(w,
                Response(400, "Invalid verification token or account already verified"),
                Cause("already_verified", local[w].token, FALSE))
       ELSE Goto(w, "verify_update",
                 [local[w] EXCEPT !.user = users[found]])
    /\ UNCHANGED <<http, tasks, cache, call, JWT_SECRET, now, ticks, users, verifs, resets, hist, streak>>

\* now := time.Now() and the UpdateOne in users.
VerifyEmailUpdateUser(w) ==
    /\ pc[w] = "verify_update"
    /\ users' = [users EXCEPT ![local[w].user.id] =
                    [@ EXCEPT !.is_verified = TRUE, !.verified_at = now]]
    /\ Goto(w, "verify_mark", [local[w] EXCEPT !.t = now])
    /\ UNCHANGED <<http, tasks, cache, call, JWT_SECRET, now, ticks, verifs, resets, hist, streak>>

\* The UpdateOne in users returns an error: 500, and the handler returns
\* before it reaches the UpdateOne in email_verifications.
VerifyEmailUpdateUserFails(w) ==
    /\ pc[w] = "verify_update"
    /\ hist' = [hist EXCEPT !.verif[local[w].rec] = Failed(@)]
    /\ RespondAbout(w, Response(500, "Server error"),
                    Cause("user_update_failed", local[w].token, FALSE))
    /\ UNCHANGED <<http, tasks, cache, call, JWT_SECRET, now, ticks, users, verifs, resets, streak>>

\* The UpdateOne in email_verifications, SendWelcomeEmail and the 200.
VerifyEmailMarkUsed(w, mail) ==
    /\ pc[w] = "verify_mark"
    /\ verifs' = [verifs EXCEPT ![local[w].rec] = MarkUsed(@, local[w].t)]
    /\ hist' = [hist EXCEPT !.verif[local[w].rec] = Won(@)]
    /\ RespondAbout(w, AfterSend(VerifyEmailSuccess, mail),
                    Cause("verified", local[w].token, FALSE))
    /\ UNCHANGED <<http, tasks, cache, JWT_SECRET, now, ticks, users, resets, streak>>
    /\ LogSend("SendWelcomeEmail", mail)

\* The UpdateOne in email_verifications returns an error: it is logged and
\* the request still answers 200.
VerifyEmailMarkUsedFails(w, mail) ==
    /\ pc[w] = "verify_mark"
    /\ hist' = [hist EXCEPT !.verif[local[w].rec] = Won(@)]
    /\ RespondAbout(w, AfterSend(VerifyEmailSuccess, mail),
                    Cause("verified", local[w].token, FALSE))
    /\ UNCHANGED <<http, tasks, cache, JWT_SECRET, now, ticks, users, verifs, resets, streak>>
    /\ LogSend("SendWelcomeEmail", mail)

(***************************************************************************)
(* Login                                                                   *)
(***************************************************************************)
\* user.LockedUntil != nil && time.Now().Before(*user.LockedUntil)
IsLocked(user, t) == user.locked_until # NULL /\ t < user.locked_until

LoginBranchCompareFirst(user, password, t) ==
    LET cmp == Compared(password, user.password) IN
    IF cmp.err # NoError THEN [branch |-> "hash_error", compared |-> TRUE]
    ELSE IF ~cmp.match THEN [branch |-> "wrong_password", compared |-> TRUE]
    ELSE IF IsLocked(user, t) THEN [branch |-> "locked", compared |-> TRUE]
    ELSE IF ~user.is_verified THEN [branch |-> "unverified", compared |-> TRUE]
    ELSE [branch |-> "accepted", compared |-> TRUE]

LoginBranchVerifiedFirst(user, password, t) ==
    LET cmp == Compared(password, user.password) IN
    IF IsLocked(user, t) THEN [branch |-> "locked", compared |-> FALSE]
    ELSE IF ~user.is_verified THEN [branch |-> "unverified", compared |-> FALSE]
    ELSE IF cmp.err # NoError THEN [branch |-> "hash_error", compared |-> TRUE]
    ELSE IF ~cmp.match THEN [branch |-> "wrong_password", compared |-> TRUE]
    ELSE [branch |-> "accepted", compared |-> TRUE]

\* Login without its check of user.IsVerified.
LoginBranchUnverifiedAccepted(user, password, t) ==
    LET cmp == Compared(password, user.password) IN
    IF IsLocked(user, t) THEN [branch |-> "locked", compared |-> FALSE]
    ELSE IF cmp.err # NoError THEN [branch |-> "hash_error", compared |-> TRUE]
    ELSE IF ~cmp.match THEN [branch |-> "wrong_password", compared |-> TRUE]
    ELSE [branch |-> "accepted", compared |-> TRUE]

\* The branch Login takes for the account it read, and whether it called
\* ComparePasswordAndHash on the way.
LoginBranch(user, password, t) ==
    LET cmp == Compared(password, user.password) IN
    IF IsLocked(user, t) THEN [branch |-> "locked", compared |-> FALSE]
    ELSE IF cmp.err # NoError THEN [branch |-> "hash_error", compared |-> TRUE]
    ELSE IF ~cmp.match THEN [branch |-> "wrong_password", compared |-> TRUE]
    ELSE IF ~user.is_verified THEN [branch |-> "unverified", compared |-> TRUE]
    ELSE [branch |-> "accepted", compared |-> TRUE]

FailedLoginOffByOne(user, t) ==
    LET attempts == user.login_attempts + 1 IN
    [user EXCEPT
        !.login_attempts = attempts,
        !.locked_until = IF attempts > LockThreshold
                         THEN t + LockMinutes * Minute ELSE user.locked_until]

FailedLoginResetting(user, t) ==
    LET attempts == user.login_attempts + 1 IN
    [user EXCEPT
        !.login_attempts = IF attempts >= LockThreshold THEN 0 ELSE attempts,
        !.locked_until = IF attempts >= LockThreshold
                         THEN t + LockMinutes * Minute ELSE user.locked_until]

\* user.LoginAttempts++ and the lock after the fifth failure.
FailedLogin(user, t) ==
    LET attempts == user.login_attempts + 1 IN
    [user EXCEPT
        !.login_attempts = attempts,
        !.locked_until = IF attempts >= LockThreshold
                         THEN t + LockMinutes * Minute ELSE user.locked_until]

SucceededLoginKeepsLock(user, t) ==
    [user EXCEPT !.login_attempts = 0, !.last_login_at = t]

SucceededLogin(user, t) ==
    [user EXCEPT !.login_attempts = 0, !.locked_until = NULL,
                 !.last_login_at = t]

\* jwt.NewWithClaims(HS512, ...) and SignedString(JWT_SECRET).  iat and exp
\* come from two calls of time.Now(): the clock says t at the first and
\* later at the second.
SessionTokenForNobody(user, t, later) ==
    LET iat == Unix(t)
        exp == Unix(later + SessionTTL)
    IN
    [alg |-> "HS512", iat |-> iat, sub |-> 0, exp |-> exp,
     jti |-> "uuid", iss |-> "flight-history-app",
     aud |-> "flight-history-users",
     sig |-> HMAC(JWT_SECRET, "HS512", iat, 0, exp, "uuid",
                  "flight-history-app", "flight-history-users")]

SessionToken(user, t, later) ==
    LET iat == Unix(t)
        exp == Unix(later + SessionTTL)
    IN
    [alg |-> "HS512", iat |-> iat, sub |-> user.id, exp |-> exp,
     jti |-> "uuid", iss |-> "flight-history-app",
     aud |-> "flight-history-users",
     sig |-> HMAC(JWT_SECRET, "HS512", iat, user.id, exp, "uuid",
                  "flight-history-app", "flight-history-users")]

LoginResponseNotFound(branch, user, t, later) ==
    CASE branch = "no_account" -> Response(404, "User not found")
      [] branch = "locked" -> Response(423, "Account temporarily locked")
      [] branch = "hash_error" -> Response(401, "Invalid credentials")
      [] branch = "wrong_password" -> Response(401, "Invalid credentials")
      [] branch = "unverified" ->
            Response(403, "Please verify your email address before logging in. Check your email for a verification link.")
      [] branch = "accepted" ->
            [Response(200, "token") EXCEPT
                !.token = SessionToken(user, t, later), !.user_id = user.id]

LoginResponse(branch, user, t, later) ==
    CASE branch = "no_account" -> Response(401, "Invalid credentials")
      [] branch = "locked" -> Response(423, "Account temporarily locked")
      [] branch = "hash_error" -> Response(401, "Invalid credentials")
      [] branch = "wrong_password" -> Response(401, "Invalid credentials")
      [] branch = "unverified" ->
            Response(403, "Please verify your email address before logging in. Check your email for a verification link.")
      [] branch = "accepted" ->
            [Response(200, "token") EXCEPT
                !.token = SessionToken(user, t, later), !.user_id = user.id]

\* Sanitizing and the FindOne in users by email.
LoginFind(w, email, password) ==
    LET mail == SanitizeInput(email)
        found == FindOne({i \in DOMAIN users : users[i].email = mail})
    IN
    /\ pc[w] = "idle"
    /\ IF found = 0
       THEN RespondAbout(w, LoginResponse("no_account", NoUser, now, now),
                         Cause("no_account", password, FALSE))
       ELSE Goto(w, "login_check",
                 [NoLocal EXCEPT !.user = users[found], !.password = password])
    /\ UNCHANGED <<http, tasks, cache, call, JWT_SECRET, now, ticks, users, verifs, resets, hist, streak>>

SetLoginFieldsIncrementing(stored, user, withLastLogin) ==
    [stored EXCEPT
        !.login_attempts = IF user.login_attempts = 0 THEN 0 ELSE @ + 1,
        !.locked_until = user.locked_until,
        !.last_login_at = IF withLastLogin THEN user.last_login_at ELSE @]

\* The $set of an UpdateOne by _id: only the named fields are written.
SetLoginFields(stored, user, withLastLogin) ==
    [stored EXCEPT
        !.login_attempts = user.login_attempts,
        !.locked_until = user.locked_until,
        !.last_login_at = IF withLastLogin THEN user.last_login_at ELSE @]

\* go RehashPasswordIfNeeded(database, form.Password, &user): the goroutine
\* holds the password of the form and Login's copy of the account, of which
\* it reads the id, the email and the encoded hash.
RehashTask(password, user) ==
    [password |-> password,
     user |-> [id |-> user.id, email |-> user.email, password |-> user.password]]

\* Login calling RehashPasswordIfNeeded without go: no goroutine is left
\* when it responds.
LoginCheckInline(w, lag) ==
    LET user == local[w].user
        taken == LoginBranch(user, local[w].password, now)
        branch == taken.branch
    IN
    /\ pc[w] = "login_check"
    /\ users' =
         CASE branch = "wrong_password" ->
                [users EXCEPT ![user.id] =
                    SetLoginFields(@, FailedLogin(user, now), FALSE)]
           [] branch = "accepted" ->
                [users EXCEPT ![user.id] =
                    SetLoginFields(@, SucceededLogin(user, now), TRUE)]
           [] OTHER -> users
    /\ streak' =
         CASE branch = "wrong_password" ->
                [streak EXCEPT ![user.id] =
                    [n |-> @.n + 1, at |-> now, cleared |-> FALSE]]
           [] branch = "accepted" ->
                [streak EXCEPT ![user.id] =
                    [FreshStreak EXCEPT
                        !.cleared = users[user.id].locked_until # NULL]]
           [] OTHER -> streak
    /\ RespondAbout(w, LoginResponse(branch, user, now, now + lag),
                    [Cause(branch, local[w].password, taken.compared)
                        EXCEPT !.at = IF branch = "accepted" THEN now ELSE 0])
    /\ UNCHANGED <<http, tasks, cache, call, JWT_SECRET, now, ticks, verifs, resets, hist>>

\* The lock check, the password comparison, the UpdateOne of the branch and,
\* for an accepted login, the start of the background rehash.
LoginCheck(w, lag) ==
    LET user == local[w].user
        taken == LoginBranch(user, local[w].password, now)
        branch == taken.branch
    IN
    /\ pc[w] = "login_check"
    /\ users' =
         CASE branch = "wrong_password" ->
                [users EXCEPT ![user.id] =
                    SetLoginFields(@, FailedLogin(user, now), FALSE)]
           [] branch = "accepted" ->
                [users EXCEPT ![user.id] =
                    SetLoginFields(@, SucceededLogin(user, now), TRUE)]
           [] OTHER -> users
    /\ streak' =
         CASE branch = "wrong_password" ->
                [streak EXCEPT ![user.id] =
                    [n |-> @.n + 1, at |-> now, cleared |-> FALSE]]
           [] branch = "accepted" ->
                [streak EXCEPT ![user.id] =
                    [FreshStreak EXCEPT
                        !.cleared = users[user.id].locked_until # NULL]]
           [] OTHER -> streak
    /\ RespondAbout(w, LoginResponse(branch, user, now, now + lag),
                    [Cause(branch, local[w].password, taken.compared)
                        EXCEPT !.at = IF branch = "accepted" THEN now ELSE 0])
    /\ tasks' = IF branch = "accepted"
                THEN tasks \cup {RehashTask(local[w].password,
                                            SucceededLogin(user, now))}
                ELSE tasks
    /\ UNCHANGED <<http, cache, call, JWT_SECRET, now, ticks, verifs, resets, hist>>


(***************************************************************************)
(* Authenticate                                                            *)
(***************************************************************************)
\* The Authorization header: its scheme, and the token after "Bearer ".
\* A token without alg stands for a string jwt.Parse cannot decode.
NoHeader == [scheme |-> "", token |-> NoToken]
BasicHeader == [scheme |-> "Basic", token |-> NoToken]
Bearer(token) == [scheme |-> "Bearer", token |-> token]

\* A token with the given header and claims, signed with key.
Sign(alg, key, iat, sub, exp) ==
    [alg |-> alg, iat |-> iat, sub |-> sub, exp |-> exp, jti |-> "uuid",
     iss |-> "flight-history-app", aud |-> "flight-history-users",
     sig |-> HMAC(key, alg, iat, sub, exp, "uuid", "flight-history-app",
                  "flight-history-users")]

\* token.Method.(*jwt.SigningMethodHMAC)
SigningMethodHMAC == {"HS256", "HS384", "HS512"}

\* uuid.Parse(userID): the ids of accounts are UUIDs; 0 stands for a
\* subject that is none.
IsUUID(userID) == userID >= 1

\* NumericDate.Time: the instant of a claim counted in seconds.
ClaimTime(seconds) == seconds * Second

AuthenticateRevoking(header, t) ==
    LET token == header.token IN
    IF ValidateJWTSecret # NoError THEN "bad_secret"
    ELSE IF header.scheme = "" THEN "no_header"
    ELSE IF header.scheme # "Bearer" THEN "bad_format"
    ELSE IF token.alg = "" THEN "malformed"
    ELSE IF token.alg \notin SigningMethodHMAC THEN "signing_method"
    ELSE IF token.sig # HMAC(JWT_SECRET, token.alg, token.iat, token.sub,
                             token.exp, token.jti, token.iss, token.aud)
    THEN "signature"
    ELSE IF token.exp # NULL /\ ~(t < ClaimTime(token.exp))
    THEN "parse_expired"
    ELSE IF token.exp = NULL THEN "panic"
    ELSE IF ClaimTime(token.exp) < t THEN "expired"
    ELSE IF token.iat = NULL THEN "panic"
    ELSE IF ClaimTime(token.iat) > t THEN "not_valid_yet"
    ELSE IF ~IsUUID(token.sub) THEN "bad_subject"
    ELSE IF \E i \in DOMAIN users :
               /\ users[i].id = token.sub
               /\ users[i].locked_until # NULL /\ t < users[i].locked_until
    THEN "bad_subject"
    ELSE "next"

AuthenticateLate(header, t) ==
    LET token == header.token IN
    IF ValidateJWTSecret # NoError THEN "bad_secret"
    ELSE IF header.scheme = "" THEN "no_header"
    ELSE IF header.scheme # "Bearer" THEN "bad_format"
    ELSE IF token.alg = "" THEN "malformed"
    ELSE IF token.alg \notin SigningMethodHMAC THEN "signing_method"
    ELSE IF token.sig # HMAC(JWT_SECRET, token.alg, token.iat, token.sub,
                             token.exp, token.jti, token.iss, token.aud)
    THEN "signature"
    ELSE IF token.exp # NULL /\ ~(t <= ClaimTime(token.exp))
    THEN "parse_expired"
    ELSE IF token.exp = NULL THEN "panic"
    ELSE IF ClaimTime(token.exp) < t THEN "expired"
    ELSE IF token.iat = NULL THEN "panic"
    ELSE IF ClaimTime(token.iat) > t THEN "not_valid_yet"
    ELSE IF ~IsUUID(token.sub) THEN "bad_subject"
    ELSE "next"

\* The branch Authenticate takes for a request with this header at time t:
\* ValidateJWTSecret, the header checks, jwt.Parse (decoding, the key
\* function, the signature, then the validator's exp check; iat is not
\* verified by the parser), and the handler's own claim checks.  An absent
\* exp or iat passes the parser and comes back from GetExpirationTime /
\* GetIssuedAt as a nil *NumericDate, on which Before / After panic.
Authenticate(header, t) ==
    LET token == header.token IN
    IF ValidateJWTSecret # NoError THEN "bad_secret"
    ELSE IF header.scheme = "" THEN "no_header"
    ELSE IF header.scheme # "Bearer" THEN "bad_format"
    ELSE IF token.alg = "" THEN "malformed"
    ELSE IF token.alg \notin SigningMethodHMAC THEN "signing_method"
    ELSE IF token.sig # HMAC(JWT_SECRET, token.alg, token.iat, token.sub,
                             token.exp, token.jti, token.iss, token.aud)
    THEN "signature"
    ELSE IF token.exp # NULL /\ ~(t < ClaimTime(token.exp))
    THEN "parse_expired"
    ELSE IF token.exp = NULL THEN "panic"
    ELSE IF ClaimTime(token.exp) < t THEN "expired"
    ELSE IF token.iat = NULL THEN "panic"
    ELSE IF ClaimTime(token.iat) > t THEN "not_valid_yet"
    ELSE IF ~IsUUID(token.sub) THEN "bad_subject"
    ELSE "next"

\* What the client sees of each branch.  A panic is recovered by net/http:
\* the connection is closed without a response.  On "next" the handler
\* behind Authenticate runs with the token's subject in its context.
AuthenticateResponse(branch, token) ==
    CASE branch = "bad_secret" -> Response(500, "Server configuration error")
      [] branch = "no_header" -> Response(401, "Authorization required")
      [] branch = "bad_format" -> Response(401, "Invalid authorization format")
      [] branch \in {"malformed", "signing_method", "signature"} ->
            Response(401, "Invalid token")
      [] branch \in {"parse_expired", "expired"} ->
            Response(401, "Token expired")
      [] branch = "not_valid_yet" -> Response(401, "Token not valid yet")
      [] branch = "bad_subject" -> Response(401, "Invalid token claims")
      [] branch = "panic" -> Response(0, "panic")
      [] branch = "next" ->
            [Response(0, "next.ServeHTTP") EXCEPT !.user_id = token.sub]

\* The tokens clients hold: those Login has returned and those Authenticate
\* has let through.
HeldTokens ==
    {resp[w].token : w \in {v \in Workers : cause[v].why = "accepted"}}
        \cup {cause[w].token : w \in {v \in Workers : cause[v].why = "next"}}

\* A held token with its header or payload changed and its signature kept.
Altered(token) ==
    {[token EXCEPT !.exp = @ + 1], [token EXCEPT !.alg = "none"],
     [token EXCEPT !.sub = 0]}

\* Tokens made at time t by a holder of the server's secret, or of another
\* key: one that passes every check, and for each check one that fails it.
Crafted(t) ==
    LET iat == Unix(t)
        exp == Unix(t) + 3600
    IN
    {Sign("HS512", JWT_SECRET, iat, 1, exp),
     Sign("HS256", JWT_SECRET, iat, 1, exp),
     Sign("RS256", JWT_SECRET, iat, 1, exp),
     Sign("HS512", GuessKey, iat, 1, exp),
     Sign("HS512", JWT_SECRET, iat, 1, Unix(t)),
     Sign("HS512", JWT_SECRET, iat, 1, NULL),
     Sign("HS512", JWT_SECRET, iat + 1, 1, exp),
     Sign("HS512", JWT_SECRET, NULL, 1, exp),
     Sign("HS512", JWT_SECRET, iat, 0, exp)}

AuthHeaders ==
    {NoHeader, BasicHeader, Bearer(NoToken)}
        \cup {Bearer(token) : token \in HeldTokens \cup Crafted(now)}
        \cup {Bearer(token) : token \in UNION {Altered(h) : h \in HeldTokens}}

\* One request through the middleware.
AuthenticateRequest(w, header) ==
    LET branch == Authenticate(header, now) IN
    /\ pc[w] = "idle"
    /\ RespondAbout(w, AuthenticateResponse(branch, header.token),
                    [Cause(branch, <<>>, FALSE) EXCEPT
                        !.token = header.token,
                        !.at = IF branch = "next" THEN now ELSE 0])
    /\ UNCHANGED <<http, tasks, cache, call, JWT_SECRET, now, ticks, users, verifs, resets, hist,
                   streak>>

(***************************************************************************)
(* ForgotPassword                                                          *)
(***************************************************************************)
ForgotPasswordSuccess ==
    Response(200, "If an account with that email exists, we've sent a password reset link to it.")

ForgotPasswordReplyNotFound(branch) ==
    CASE branch = "forgot_no_account" -> Response(404, "No account with that email")
      [] branch = "forgot_unverified" -> ForgotPasswordSuccess
      [] branch = "reset_sent" -> ForgotPasswordSuccess

\* What the handler answers where it returns without an error: no account,
\* an unverified account, a reset record inserted.
ForgotPasswordReply(branch) ==
    CASE branch = "forgot_no_account" -> ForgotPasswordSuccess
      [] branch = "forgot_unverified" -> ForgotPasswordSuccess
      [] branch = "reset_sent" -> ForgotPasswordSuccess

\* 32 bytes of crypto/rand do not repeat: the token drawn is none a record
\* holds and none a request in flight has drawn.
generatePasswordResetToken(token) ==
    /\ \A i \in 1..Len(resets) : resets[i].token # token
    /\ \A v \in Workers : pc[v] = "forgot_insert" => local[v].token # token

\* Sanitizing, validation, the FindOne in users by email and
\* generatePasswordResetToken.
ForgotPasswordBegin(w, email, token) ==
    LET mail == SanitizeInput(email)
        found == FindOne({i \in DOMAIN users : users[i].email = mail})
    IN
    /\ pc[w] = "idle"
    /\ generatePasswordResetToken(token)
    /\ IF mail = <<>>
       THEN Respond(w, Response(400, "Email is required"), "email_required")
       ELSE IF validateEmail(mail) # NoError
       THEN Respond(w, Response(400, "Invalid email format"), "bad_email")
       ELSE IF found = 0
       THEN Respond(w, ForgotPasswordReply("forgot_no_account"),
                    "forgot_no_account")
       ELSE IF ~users[found].is_verified
       THEN Respond(w, ForgotPasswordReply("forgot_unverified"),
                    "forgot_unverified")
       ELSE Goto(w, "forgot_insert",
                 [NoLocal EXCEPT !.user = users[found], !.token = token])
    /\ UNCHANGED <<http, tasks, cache, call, JWT_SECRET, now, ticks, users, verifs, resets, hist, streak>>

\* now := time.Now(), the InsertOne in password_resets,
\* SendPasswordResetEmail and the 200.
ForgotPasswordInsert(w, mail) ==
    /\ pc[w] = "forgot_insert"
    /\ resets' = Append(resets,
                    NewActionToken(local[w].user.id, local[w].user.email,
                                   local[w].token, now, ResetTTL))
    /\ hist' = [hist EXCEPT !.reset = Append(@, NoHistory)]
    /\ Respond(w, AfterSend(ForgotPasswordReply("reset_sent"), mail), "reset_sent")
    /\ UNCHANGED <<http, tasks, cache, JWT_SECRET, now, ticks, users, verifs, streak>>
    /\ LogSend("SendPasswordResetEmail", mail)

(***************************************************************************)
(* ResetPassword                                                           *)
(***************************************************************************)
ResetPasswordSuccess ==
    Response(200, "Password has been successfully reset. You can now log in with your new password.")

\* Sanitizing, validation and the FindOne in password_resets.
ResetPasswordBegin(w, token, newPassword) ==
    LET tok == SanitizeInput(token)
        pw == SanitizeInput(newPassword)
        found == FindOne({i \in DOMAIN resets : Redeemable(resets[i], tok, now)})
    IN
    /\ pc[w] = "idle"
    /\ IF tok = <<>>
       THEN Respond(w, Response(400, "Reset token is required"),
                    "token_required")
       ELSE IF pw = <<>>
       THEN Respond(w, Response(400, "New password is required"),
                    "password_required")
       ELSE IF validatePassword(pw) # NoError
       THEN Respond(w, Response(400, validatePassword(pw)), "bad_password")
       ELSE IF found = 0
       THEN RespondAbout(w, Response(400, "Invalid or expired reset token"),
                         Cause("token_not_found", tok, FALSE))
       ELSE Goto(w, "reset_user",
                 [NoLocal EXCEPT !.rec = found, !.token = tok,
                                 !.password = pw])
    /\ UNCHANGED <<http, tasks, cache, call, JWT_SECRET, now, ticks, users, verifs, resets, hist, streak>>

\* FindOne in users: _id = passwordReset.UserID.
ResetPasswordFindUser(w) ==
    LET uid == resets[local[w].rec].user_id
        found == FindOne({i \in DOMAIN users : users[i].id = uid})
    IN
    /\ pc[w] = "reset_user"
    /\ IF found = 0
       THEN RespondAbout(w, Response(400, "Invalid reset token"),
                         Cause("reset_no_account", local[w].token, FALSE))
       ELSE Goto(w, "reset_update", [local[w] EXCEPT !.user = users[found]])
    /\ UNCHANGED <<http, tasks, cache, call, JWT_SECRET, now, ticks, users, verifs, resets, hist, streak>>

\* ResetPassword without login_attempts and locked_until in its $set.
ResetPasswordUpdateUserKeepsLock(w, salt) ==
    /\ pc[w] = "reset_update"
    /\ users' = [users EXCEPT ![local[w].user.id] =
                    [@ EXCEPT
                       !.password = Hashed(local[w].password, salt).encodedHash]]
    /\ streak' = [streak EXCEPT ![local[w].user.id] = FreshStreak]
    /\ Goto(w, "reset_mark", [local[w] EXCEPT !.t = now])
    /\ UNCHANGED <<http, tasks, cache, call, JWT_SECRET, now, ticks, verifs, resets, hist>>

\* GenerateFromPassword, now := time.Now() and the UpdateOne in users.
ResetPasswordUpdateUser(w, salt) ==
    /\ pc[w] = "reset_update"
    /\ users' = [users EXCEPT ![local[w].user.id] =
                    [@ EXCEPT
                       !.password = Hashed(local[w].password, salt).encodedHash,
                       !.login_attempts = 0,
                       !.locked_until = NULL]]
    /\ streak' = [streak EXCEPT ![local[w].user.id] = FreshStreak]
    /\ Goto(w, "reset_mark", [local[w] EXCEPT !.t = now])
    /\ UNCHANGED <<http, tasks, cache, call, JWT_SECRET, now, ticks, verifs, resets, hist>>

\* The UpdateOne in users returns an error: 500, and the handler returns
\* before it reaches the UpdateOne in password_resets.
ResetPasswordUpdateUserFails(w) ==
    /\ pc[w] = "reset_update"
    /\ hist' = [hist EXCEPT !.reset[local[w].rec] = Failed(@)]
    /\ RespondAbout(w, Response(500, "Server error"),
                    Cause("user_update_failed", local[w].token, FALSE))
    /\ UNCHANGED <<http, tasks, cache, call, JWT_SECRET, now, ticks, users, verifs, resets, streak>>

\* The UpdateOne in password_resets, the confirmation email and the 200.
ResetPasswordMarkUsed(w, mail) ==
    /\ pc[w] = "reset_mark"
    /\ resets' = [resets EXCEPT ![local[w].rec] = MarkUsed(@, local[w].t)]
    /\ hist' = [hist EXCEPT !.reset[local[w].rec] = Won(@)]
    /\ RespondAbout(w, AfterSend(ResetPasswordSuccess, mail),
                    Cause("password_reset", local[w].token, FALSE))
    /\ UNCHANGED <<http, tasks, cache, JWT_SECRET, now, ticks, users, verifs, streak>>
    /\ LogSend("SendPasswordChangeConfirmationEmail", mail)

\* The UpdateOne in password_resets returns an error: it is logged and the
\* request still answers 200.
ResetPasswordMarkUsedFails(w, mail) ==
    /\ pc[w] = "reset_mark"
    /\ hist' = [hist EXCEPT !.reset[local[w].rec] = Won(@)]
    /\ RespondAbout(w, AfterSend(ResetPasswordSuccess, mail),
                    Cause("password_reset", local[w].token, FALSE))
    /\ UNCHANGED <<http, tasks, cache, JWT_SECRET, now, ticks, users, verifs, resets, streak>>
    /\ LogSend("SendPasswordChangeConfirmationEmail", mail)

(***************************************************************************)
(* Specifications.                                                         *)
(***************************************************************************)
RegisterStep(w) ==
    \/ \E e \in RegisterEmails, p \in RegisterPasswords,
          c \in VerificationCodes, s \in Salts : RegisterBegin(w, e, p, c, s)
    \/ RegisterInsert(w)
    \/ RegisterCreateVerification(w, NoError)

VerifyEmailStep(w) ==
    \/ \E t \in VerifyTokens : VerifyEmailBegin(w, t)
    \/ VerifyEmailFindUser(w)
    \/ VerifyEmailUpdateUser(w)
    \/ VerifyEmailMarkUsed(w, NoError)

LoginStep(w) ==
    \/ \E e \in LoginEmails, p \in LoginPasswords : LoginFind(w, e, p)
    \/ \E lag \in ClockLags : LoginCheck(w, lag)

ForgotPasswordStep(w) ==
    \/ \E e \in LoginEmails, t \in ResetSecrets : ForgotPasswordBegin(w, e, t)
    \/ ForgotPasswordInsert(w, NoError)

ResetPasswordStep(w) ==
    \/ \E t \in ResetTokens, p \in NewPasswords : ResetPasswordBegin(w, t, p)
    \/ ResetPasswordFindUser(w)
    \/ \E s \in Salts : ResetPasswordUpdateUser(w, s)
    \/ ResetPasswordMarkUsed(w, NoError)

\* A step of worker w in which a store write returns an error.
Fault(w) ==
    \/ VerifyEmailUpdateUserFails(w)
    \/ VerifyEmailMarkUsedFails(w, NoError)
    \/ ResetPasswordUpdateUserFails(w)
    \/ ResetPasswordMarkUsedFails(w, NoError)

Alone(w) == \A v \in Workers \ {w} : pc[v] = "idle"

\* Every handler, concurrently, one worker a request, over a store whose
\* writes may fail.
Next ==
    \/ \E d \in Deltas : Tick(d)
    \/ \E w \in Workers :
          \/ BadRequest(w)
          \/ RegisterStep(w)
          \/ VerifyEmailStep(w)
          \/ LoginStep(w)
          \/ ForgotPasswordStep(w)
          \/ ResetPasswordStep(w)
          \/ Fault(w)
          \/ \E h \in AuthHeaders : AuthenticateRequest(w, h)
    \/ Moment
    \/ \E secret \in Secrets : Restart(secret)

Spec == Init /\ [][Next]_vars

\* Logins, one request at a time.
LoginNext ==
    \/ \E d \in LoginDeltas : Tick(d)
    \/ Alone("w1") /\ (RegisterStep("w1") \/ VerifyEmailStep("w1"))
    \/ \E w \in Workers : Alone(w) /\ LoginStep(w)

LoginSpec == Init /\ [][LoginNext]_vars

\* A well-formed registration and the redemption of its code, on worker w.
SignUp(w) ==
    \/ \E c \in VerificationCodes, s \in Salts :
          RegisterBegin(w, EmailA, PwA, c, s)
    \/ RegisterInsert(w)
    \/ RegisterCreateVerification(w, NoError)
    \/ \E t \in VerificationCodes : VerifyEmailBegin(w, t)
    \/ VerifyEmailFindUser(w)
    \/ VerifyEmailUpdateUser(w)
    \/ VerifyEmailMarkUsed(w, NoError)

\* Sessions: sign-up and logins with the right password on one worker,
\* requests through Authenticate on the other, one request at a time.
AuthNext ==
    \/ Moment
    \/ \E d \in AuthDeltas : Tick(d)
    \/ Alone("w1") /\ SignUp("w1")
    \/ Alone("w1") /\ LoginFind("w1", EmailA, PwA)
    \/ \E lag \in ClockLags : LoginCheck("w1", lag)
    \/ \E h \in AuthHeaders : Alone("w2") /\ AuthenticateRequest("w2", h)

AuthSpec == Init /\ [][AuthNext]_vars

\* Sessions while the account changes: sign-up, logins with any password
\* and password resets on one worker, held tokens presented again on the
\* other, one request at a time.
SessionNext ==
    \/ \E d \in SessionDeltas : Tick(d)
    \/ Alone("w1") /\ SignUp("w1")
    \/ Alone("w1") /\ \E p \in LoginPasswords : LoginFind("w1", EmailA, p)
    \/ \E lag \in ClockLags : LoginCheck("w1", lag)
    \/ Alone("w1") /\ \E t \in ResetSecrets : ForgotPasswordBegin("w1", EmailA, t)
    \/ ForgotPasswordInsert("w1", NoError)
    \/ Alone("w1") /\ \E t \in ResetSecrets : ResetPasswordBegin("w1", t, PwB)
    \/ ResetPasswordFindUser("w1")
    \/ \E s \in Salts : ResetPasswordUpdateUser("w1", s)
    \/ ResetPasswordMarkUsed("w1", NoError)
    \/ \E token \in HeldTokens :
          Alone("w2") /\ AuthenticateRequest("w2", Bearer(token))

SessionSpec == Init /\ [][SessionNext]_vars

\* Action tokens redeemed by two clients, one request at a time, with
\* requests that pass validation.
RefusalNext ==
    \/ Tick(ResetTTL)
    \/ \E c \in VerificationCodes, s \in Salts :
          Alone("w1") /\ RegisterBegin("w1", EmailA, PwA, c, s)
    \/ RegisterInsert("w1")
    \/ RegisterCreateVerification("w1", NoError)
    \/ \E t \in ResetSecrets :
          Alone("w1") /\ ForgotPasswordBegin("w1", EmailA, t)
    \/ ForgotPasswordInsert("w1", NoError)
    \/ \E w \in Workers :
          \/ \E t \in VerificationCodes : Alone(w) /\ VerifyEmailBegin(w, t)
          \/ VerifyEmailFindUser(w)
          \/ VerifyEmailUpdateUser(w)
          \/ VerifyEmailMarkUsed(w, NoError)
          \/ \E t \in ResetSecrets : Alone(w) /\ ResetPasswordBegin(w, t, PwB)
          \/ ResetPasswordFindUser(w)
          \/ \E s \in Salts : ResetPasswordUpdateUser(w, s)
          \/ ResetPasswordMarkUsed(w, NoError)

RefusalSpec == Init /\ [][RefusalNext]_vars

\* Reset requests by two clients, one request at a time, for the address
\* of the account and for an address no account has.
ForgotNext ==
    \/ Tick(ResetTTL)
    \/ Alone("w1") /\ SignUp("w1")
    \/ \E w \in Workers :
          \/ \E e \in {EmailA, EmailB}, t \in ResetSecrets :
                Alone(w) /\ ForgotPasswordBegin(w, e, t)
          \/ ForgotPasswordInsert(w, NoError)

ForgotSpec == Init /\ [][ForgotNext]_vars

\* Logins to one account, concurrently.
LoginRaceNext ==
    \/ SignUp("w1")
    \/ \E w \in Workers :
          \/ \E p \in LoginPasswords : LoginFind(w, EmailA, p)
          \/ \E lag \in ClockLags : LoginCheck(w, lag)

LoginRaceSpec == Init /\ [][LoginRaceNext]_vars

\* Sessions across restarts of the process with another JWT_SECRET.
ConfigNext ==
    \/ \E secret \in Secrets : Restart(secret)
    \/ \E d \in SessionDeltas : Tick(d)
    \/ Alone("w1") /\ SignUp("w1")
    \/ Alone("w1") /\ \E p \in LoginPasswords : LoginFind("w1", EmailA, p)
    \/ \E lag \in ClockLags : LoginCheck("w1", lag)
    \/ \E h \in AuthHeaders : Alone("w2") /\ AuthenticateRequest("w2", h)

ConfigSpec == Init /\ [][ConfigNext]_vars

\* Action tokens, one request at a time.
RedeemSeqNext ==
    \/ \E d \in TokenDeltas : Tick(d)
    \/ RegisterStep("w1")
    \/ VerifyEmailStep("w1")
    \/ ForgotPasswordStep("w1")
    \/ ResetPasswordStep("w1")

RedeemSeqSpec == Init /\ [][RedeemSeqNext]_vars

\* Action tokens, one request at a time, when the UpdateOne of the account
\* may fail.
RedeemFaultNext ==
    \/ RedeemSeqNext
    \/ VerifyEmailUpdateUserFails("w1")
    \/ ResetPasswordUpdateUserFails("w1")

RedeemFaultSpec == Init /\ [][RedeemFaultNext]_vars

\* Action tokens, redeemed concurrently with well-formed requests.
RedeemNext ==
    \/ Tick(ResetTTL)
    \/ \E c \in VerificationCodes, s \in Salts :
          RegisterBegin("w1", EmailA, PwA, c, s)
    \/ RegisterInsert("w1")
    \/ RegisterCreateVerification("w1", NoError)
    \/ \E t \in ResetSecrets : ForgotPasswordBegin("w1", EmailA, t)
    \/ ForgotPasswordInsert("w1", NoError)
    \/ \E w \in Workers :
          \/ \E t \in VerificationCodes : VerifyEmailBegin(w, t)
          \/ VerifyEmailFindUser(w)
          \/ VerifyEmailUpdateUser(w)
          \/ VerifyEmailMarkUsed(w, NoError)
          \/ \E t \in ResetSecrets : ResetPasswordBegin(w, t, PwB)
          \/ ResetPasswordFindUser(w)
          \/ \E s \in Salts : ResetPasswordUpdateUser(w, s)
          \/ ResetPasswordMarkUsed(w, NoError)

RedeemSpec == Init /\ [][RedeemNext]_vars

(***************************************************************************)
(* Properties.                                                             *)
(***************************************************************************)
VerifyTokenNotFound == Response(400, "Invalid or expired verification token")

ResetTokenNotFound == Response(400, "Invalid or expired reset token")

\* Every record of collection c that holds secret s has been redeemed
\* with a 200, and there is one.
AllRedeemed(c, h, s) ==
    /\ \E i \in 1..Len(c) : c[i].token = s
    /\ \A i \in 1..Len(c) : c[i].token = s => h[i].won >= 1

\* Some record of collection c holds secret s, is unused and is not expired.
Live(c, s) ==
    \E i \in 1..Len(c) :
        c[i].token = s /\ ~c[i].used /\ now < c[i].expires_at

\* C1: under concurrent use every action token record, of either kind, is
\* redeemed with a success and a change of the account at most once.
C1_RedeemedAtMostOnce ==
    /\ \A i \in 1..Len(verifs) : hist.verif[i].won <= 1
    /\ \A i \in 1..Len(resets) : hist.reset[i].won <= 1

\* C2: with one request at a time, a redeem that finds its token goes on to
\* change the account and answers with the success, and a redeem of a token
\* whose records have all been redeemed answers 400 'Invalid or expired ...
\* token', for VerifyEmail and for ResetPassword.
C2_SecondRedeemNotFound ==
    [][\A w \in Workers :
        /\ pc[w] = "verify_user" /\ pc'[w] # "verify_user"
              => pc'[w] = "verify_update"
        /\ pc[w] = "verify_mark" /\ pc'[w] # "verify_mark"
              => /\ resp'[w] = VerifyEmailSuccess
                 /\ hist'.verif[local[w].rec].won = 1
                 /\ users'[verifs[local[w].rec].user_id].is_verified
        /\ pc[w] = "reset_user" /\ pc'[w] # "reset_user"
              => pc'[w] = "reset_update"
        /\ pc[w] = "reset_mark" /\ pc'[w] # "reset_mark"
              => /\ resp'[w] = ResetPasswordSuccess
                 /\ hist'.reset[local[w].rec].won = 1
        /\ \A t \in VerifyTokens :
              VerifyEmailBegin(w, t)
                 /\ AllRedeemed(verifs, hist.verif, SanitizeInput(t))
              => resp'[w] = VerifyTokenNotFound
        /\ \A t \in ResetTokens, p \in NewPasswords :
              ResetPasswordBegin(w, t, p)
                 /\ validatePassword(SanitizeInput(p)) = NoError
                 /\ AllRedeemed(resets, hist.reset, SanitizeInput(t))
              => resp'[w] = ResetTokenNotFound
    ]_vars

\* A verification token and a reset token have each been redeemed once, and
\* the second redeem of the reset token, before its expiry, was answered
\* token-not-found.
C2_ResetRedeemedTwice ==
    \E w \in Workers :
        /\ \E i \in 1..Len(verifs) : hist.verif[i].won = 1
        /\ resp[w] = ResetTokenNotFound
        /\ \E i \in 1..Len(resets) :
              /\ resets[i].token = cause[w].secret
              /\ hist.reset[i].won = 1
              /\ now < resets[i].expires_at

\* The same for the second redeem of a verification token.
C2_VerificationRedeemedTwice ==
    \E w \in Workers :
        /\ resp[w] = VerifyTokenNotFound
        /\ \E i \in 1..Len(verifs) :
              /\ verifs[i].token = cause[w].secret
              /\ hist.verif[i].won = 1
              /\ now < verifs[i].expires_at

\* C3: when the update of the account fails during a redemption, the token
\* presented is marked used all the same (so that a later redeem of it is
\* answered token-not-found).
C3_FailedMutationBurnsToken ==
    \A w \in Workers :
        cause[w].why = "user_update_failed"
        => /\ \A i \in 1..Len(verifs) :
                 verifs[i].token = cause[w].secret => verifs[i].used
           /\ \A i \in 1..Len(resets) :
                 resets[i].token = cause[w].secret => resets[i].used

\* C4: a record is created with created_at = now, used = false and
\* expires_at = now + 24 h (verification) or now + 1 h (reset), and a
\* well-formed redeem is answered token-not-found exactly when no record
\* with its secret is unused with now < expires_at.
C4_TokenLifetime ==
    [][/\ Len(verifs') > Len(verifs)
            => LET r == verifs'[Len(verifs')] IN
               /\ r.created_at = now
               /\ r.used = FALSE
               /\ r.expires_at = now + 24 * Hour
       /\ Len(resets') > Len(resets)
            => LET r == resets'[Len(resets')] IN
               /\ r.created_at = now
               /\ r.used = FALSE
               /\ r.expires_at = now + Hour
       /\ \A w \in Workers :
            /\ \A t \in VerifyTokens :
                  VerifyEmailBegin(w, t)
                     /\ SanitizeInput(t) # <<>>
                     /\ validateVerificationToken(SanitizeInput(t)) = NoError
                  => /\ resp'[w] = VerifyTokenNotFound
                          <=> ~Live(verifs, SanitizeInput(t))
                     /\ pc'[w] = "verify_user"
                          <=> Live(verifs, SanitizeInput(t))
            /\ \A t \in ResetTokens, p \in NewPasswords :
                  ResetPasswordBegin(w, t, p)
                     /\ SanitizeInput(t) # <<>>
                     /\ validatePassword(SanitizeInput(p)) = NoError
                  => /\ resp'[w] = ResetTokenNotFound
                          <=> ~Live(resets, SanitizeInput(t))
                     /\ pc'[w] = "reset_user"
                          <=> Live(resets, SanitizeInput(t))
    ]_vars

\* A reset token that was never used is answered token-not-found at the very
\* minute it expires.
C4_UnusedRejectedAtExpiry ==
    \E w \in Workers :
        /\ resp[w] = ResetTokenNotFound
        /\ \E i \in 1..Len(resets) :
              /\ resets[i].token = cause[w].secret
              /\ ~resets[i].used
              /\ hist.reset[i].won = 0
              /\ resets[i].expires_at = now

\* The same for a verification token.
C4_UnusedVerificationRejectedAtExpiry ==
    \E w \in Workers :
        /\ resp[w] = VerifyTokenNotFound
        /\ \E i \in 1..Len(verifs) :
              /\ verifs[i].token = cause[w].secret
              /\ ~verifs[i].used
              /\ verifs[i].expires_at = now

\* C5: with one login at a time, after k < 5 wrong-password logins in a row
\* on a fresh account its counter is k and it has no lock, and after the
\* fifth its lock ends 15 minutes after that login.
C5_LockAtFifthFailure ==
    \A u \in 1..Len(users) :
        /\ streak[u].n < 5
              => /\ users[u].login_attempts = streak[u].n
                 /\ users[u].locked_until = NULL
        /\ streak[u].n = 5
              => users[u].locked_until = streak[u].at + 15 * Minute

\* An account after its fifth wrong-password login in a row.
C5_FifthFailureLocked ==
    \E u \in 1..Len(users) :
        /\ streak[u].n = 5
        /\ users[u].login_attempts = 5
        /\ users[u].locked_until = streak[u].at + 15 * Minute

\* C6: a login for an account whose stored lock ends after now answers 423,
\* does not call the password verifier, and changes nothing of the account.
C6_LockedLoginUntouched ==
    [][\A w \in Workers :
          /\ pc[w] = "login_check"
          /\ pc'[w] = "idle"
          /\ users[local[w].user.id].locked_until # NULL
          /\ now < users[local[w].user.id].locked_until
          => /\ resp'[w] = Response(423, "Account temporarily locked")
             /\ ~cause'[w].compared
             /\ users' = users
    ]_vars

\* Two logins to a locked account, one with its password and one with
\* another, were both answered 423.
C6_LockedWhateverPassword ==
    \E a, b \in Workers, u \in 1..Len(users) :
        /\ cause[a].why = "locked" /\ resp[a].code = 423
        /\ cause[b].why = "locked" /\ resp[b].code = 423
        /\ users[u].locked_until # NULL /\ now < users[u].locked_until
        /\ Compared(cause[a].secret, users[u].password).match
        /\ ~Compared(cause[b].secret, users[u].password).match

\* C7: the stored counter is 0 right after any step that sets locked_until
\* and right after any login that succeeds.
C7_CounterZeroOnLockOrSuccess ==
    [][\A u \in 1..Len(users) :
          /\ users'[u].locked_until # NULL
                /\ users'[u].locked_until # users[u].locked_until
             => users'[u].login_attempts = 0
          /\ \A w \in Workers :
                pc[w] = "login_check" /\ local[w].user.id = u
                   /\ resp'[w].code = 200
                => users'[u].login_attempts = 0
    ]_vars

\* C7 as amended: the stored counter is 0 right after any login that
\* succeeds; the failed login that sets locked_until leaves the counter at
\* its incremented value, which is 5 or more.
C7_CounterZeroOnSuccessOnly ==
    [][\A u \in 1..Len(users) :
          /\ users'[u].locked_until # NULL
                /\ users'[u].locked_until # users[u].locked_until
             => /\ users'[u].login_attempts = users[u].login_attempts + 1
                /\ users'[u].login_attempts >= 5
          /\ \A w \in Workers :
                pc[w] = "login_check" /\ local[w].user.id = u
                   /\ resp'[w].code = 200
                => users'[u].login_attempts = 0
    ]_vars

\* An account just locked by a failed login, its counter still at 5.
C7_LockedWithCounter ==
    \E u \in 1..Len(users) :
        /\ users[u].locked_until # NULL
        /\ users[u].locked_until = now + 15 * Minute
        /\ users[u].login_attempts = 5

\* C8: every login answered 200 leaves the account with counter 0, no lock
\* and last_login_at = the time of the login, also when the account had
\* been locked before.
C8_AcceptedLoginPersists ==
    [][\A w \in Workers :
          pc[w] = "login_check" /\ resp'[w].code = 200
          => LET u == users'[local[w].user.id] IN
             /\ u.login_attempts = 0
             /\ u.locked_until = NULL
             /\ u.last_login_at = now
             /\ resp'[w].token.sub = local[w].user.id
    ]_vars

\* A login accepted after the account's lock had ended.
C8_AcceptedAfterLock ==
    \E w \in Workers, u \in 1..Len(users) :
        /\ cause[w].why = "accepted"
        /\ resp[w].token.sub = u
        /\ streak[u].cleared
        /\ users[u].login_attempts = 0
        /\ users[u].locked_until = NULL
        /\ users[u].last_login_at = now

\* C9: the response to a login for an email without account and the
\* response to a wrong-password login for an unlocked account are the same,
\* code and body.
C9_EnumerationResistant ==
    \A a, b \in Workers :
        cause[a].why = "no_account" /\ cause[b].why = "wrong_password"
        => resp[a] = resp[b]

\* One worker holds the response to an unknown email, the other the
\* response to a wrong password.
C9_BothResponsesHeld ==
    \E a, b \in Workers :
        /\ cause[a].why = "no_account"
        /\ cause[b].why = "wrong_password"
        /\ resp[a].code = 401

\* C10: a login is answered 403 (unverified) only when the password it
\* presented matches the stored hash, and a wrong password on an unverified,
\* unlocked account is answered 401 'Invalid credentials' and counted.
C10_UnverifiedOnlyAfterMatch ==
    [][\A w \in Workers :
          pc[w] = "login_check" /\ pc'[w] = "idle"
          => LET u == users[local[w].user.id]
                 cmp == Compared(local[w].password, u.password)
             IN
             /\ resp'[w].code = 403 => cmp.err = NoError /\ cmp.match
             /\ ~u.is_verified
                   /\ ~(u.locked_until # NULL /\ now < u.locked_until)
                   /\ ~cmp.match
                => /\ resp'[w] = Response(401, "Invalid credentials")
                   /\ users'[u.id].login_attempts = u.login_attempts + 1
    ]_vars

\* On one unverified account, a wrong password was answered 401 and counted
\* and the right password was answered 403.
C10_UnverifiedBothPasswords ==
    \E a, b \in Workers, u \in 1..Len(users) :
        /\ ~users[u].is_verified
        /\ users[u].login_attempts >= 1
        /\ cause[a].why = "wrong_password" /\ resp[a].code = 401
        /\ ~Compared(cause[a].secret, users[u].password).match
        /\ cause[b].why = "unverified" /\ resp[b].code = 403
        /\ Compared(cause[b].secret, users[u].password).match

\* The token verifies under the configured secret.
SignatureVerifies(token) ==
    token.sig = HMAC(JWT_SECRET, token.alg, token.iat, token.sub, token.exp,
                     token.jti, token.iss, token.aud)

\* The five checks of a session token at the present time.
EveryCheckHolds(token) ==
    /\ token.alg \in {"HS256", "HS384", "HS512"}
    /\ SignatureVerifies(token)
    /\ token.exp # NULL /\ now < token.exp * Second
    /\ token.iat # NULL /\ now >= token.iat * Second
    /\ token.sub >= 1

\* C11: Authenticate hands a request on only if the token's algorithm is
\* HMAC, its signature verifies, now < exp, now >= iat and its subject is a
\* UUID, and then with the subject as the user id; a bearer token that
\* fails one of the checks is answered 401 and not handed on.
C11_AuthenticateChecks ==
    [][\A w \in Workers, h \in AuthHeaders :
          AuthenticateRequest(w, h)
          => /\ resp'[w].body = "next.ServeHTTP"
                  => /\ h.scheme = "Bearer"
                     /\ EveryCheckHolds(h.token)
                     /\ resp'[w].user_id = h.token.sub
             /\ ValidateJWTSecret = NoError /\ h.scheme = "Bearer"
                   /\ ~EveryCheckHolds(h.token)
                  => /\ resp'[w].code = 401
                     /\ resp'[w].body # "next.ServeHTTP"
    ]_vars

\* The token worker b presents is the one Login returned to worker a.
PresentsIssued(a, b, h) ==
    /\ cause[a].why = "accepted"
    /\ h = Bearer(resp[a].token)
    /\ AuthenticateRequest(b, h)

\* C12: a token Login issued at time t is handed on by Authenticate at every
\* time from t to before t + 24 h, and answered 401 'Token expired' from
\* t + 24 h + 1 s on.
C12_AcceptedForADay ==
    [][\A a, b \in Workers, h \in AuthHeaders :
          PresentsIssued(a, b, h)
          => /\ cause[a].at <= now /\ now < cause[a].at + 24 * Hour
                  => resp'[b].body = "next.ServeHTTP"
             /\ now >= cause[a].at + 24 * Hour + Second
                  => resp'[b] = Response(401, "Token expired")
    ]_vars

\* C12 as amended: a token Login issued at time t is handed on at every
\* time from t to before its exp claim (a whole second, less than a second
\* before or after t + 24 h), so at least until before t + 24 h - 1 s, and
\* answered 401 'Token expired' from its exp on, so at least from
\* t + 24 h + 1 s on.
C12_AcceptedUntilExp ==
    [][\A a, b \in Workers, h \in AuthHeaders :
          PresentsIssued(a, b, h) /\ cause[a].at <= now
          => LET exp == resp[a].token.exp * Second IN
             /\ now < exp => resp'[b].body = "next.ServeHTTP"
             /\ now >= exp => resp'[b] = Response(401, "Token expired")
             /\ cause[a].at + 24 * Hour - Second < exp
             /\ exp <= cause[a].at + 24 * Hour + Second
    ]_vars

\* A token issued by Login was answered 'Token expired' less than 24 h
\* after its issue.
C12_ExpiredWithinTheDay ==
    \E a, b \in Workers :
        /\ cause[a].why = "accepted"
        /\ cause[b].token = resp[a].token
        /\ resp[b] = Response(401, "Token expired")
        /\ now < cause[a].at + 24 * Hour

\* C13: every token Login issues has exp - iat = 86400 seconds.
C13_ExpIsIatPlusDay ==
    \A w \in Workers :
        cause[w].why = "accepted"
        => resp[w].token.exp - resp[w].token.iat = 86400

\* C14: while JWT_SECRET is unset or shorter than 32 bytes no login is
\* answered with a token and Authenticate hands no request on.
C14_NoSessionUnderWeakSecret ==
    [][\A w \in Workers :
          Len(JWT_SECRET) < 32 /\ <<resp[w], cause[w]>>' # <<resp[w], cause[w]>>
          => cause'[w].why \notin {"accepted", "next"}
    ]_vars

\* C15: a token Authenticate has handed on is handed on again at every
\* later time before its exp, whatever has happened to the account since
\* (failed logins, a lock, a password reset).
C15_NoRevocation ==
    [][\A w \in Workers, token \in HeldTokens :
          /\ AuthenticateRequest(w, Bearer(token))
          /\ cause[w].why = "next" /\ cause[w].token = token
          /\ now < token.exp * Second
          => resp'[w].body = "next.ServeHTTP" /\ resp'[w].user_id = token.sub
    ]_vars

\* A token was handed on after the fifth failed login had locked its
\* account and before the lock ended.
C15_HandedOnWhileLocked ==
    \E w \in Workers, u \in 1..Len(users) :
        /\ cause[w].why = "next"
        /\ cause[w].token.sub = u
        /\ streak[u].n >= 5
        /\ users[u].locked_until # NULL
        /\ streak[u].at < cause[w].at
        /\ cause[w].at < users[u].locked_until

\* C16: a wrong-password login stores the counter it read at its FindOne
\* plus one, whatever the store holds by then, so that two concurrent
\* wrong-password logins can leave the counter grown by 1 instead of 2.
C16_ReadThenWrite ==
    [][\A w \in Workers :
          pc[w] = "login_check" /\ cause'[w].why = "wrong_password"
          => users'[local[w].user.id].login_attempts
                = local[w].user.login_attempts + 1
    ]_vars

\* Two wrong-password logins on a fresh, unlocked account have both been
\* answered and the stored counter is 1.
C16_LostUpdate ==
    \E u \in 1..Len(users) :
        /\ streak[u].n = 2
        /\ users[u].login_attempts = 1
        /\ users[u].locked_until = NULL
        /\ \A w \in Workers : cause[w].why = "wrong_password"

\* No record holds the secret.
NeverIssued(coll, token) ==
    \A i \in 1..Len(coll) : coll[i].token # token

\* The secret is held, and by used records only.
AlreadyUsed(coll, token) ==
    /\ \E i \in 1..Len(coll) : coll[i].token = token
    /\ \A i \in 1..Len(coll) : coll[i].token = token => coll[i].used

\* The secret is held, and by expired records only.
HasExpired(coll, token, t) ==
    /\ \E i \in 1..Len(coll) : coll[i].token = token
    /\ \A i \in 1..Len(coll) : coll[i].token = token => coll[i].expires_at <= t

Unredeemable(coll, token, t) ==
    \/ NeverIssued(coll, token)
    \/ AlreadyUsed(coll, token)
    \/ HasExpired(coll, token, t)

\* C17: a redeem request that passes validation is answered with the one
\* token-not-found response (same status, same body) whether its secret
\* was never issued, was already used or has expired.
C17_OneRefusal ==
    [][\A w \in Workers :
          /\ \A t \in VerificationCodes :
                /\ pc[w] = "idle"
                /\ Unredeemable(verifs, SanitizeInput(t), now)
                /\ VerifyEmailBegin(w, t)
                => resp'[w] = VerifyTokenNotFound /\ pc'[w] = "idle"
          /\ \A t \in ResetSecrets :
                /\ pc[w] = "idle"
                /\ Unredeemable(resets, SanitizeInput(t), now)
                /\ ResetPasswordBegin(w, t, PwB)
                => resp'[w] = ResetTokenNotFound /\ pc'[w] = "idle"
    ]_vars

\* One request holds the refusal of a verification code that was used, the
\* other the refusal of a code no record holds.
C17_RefusedUsedAndNeverIssued ==
    \E v, w \in Workers :
        /\ resp[v] = VerifyTokenNotFound
        /\ resp[w] = VerifyTokenNotFound
        /\ AlreadyUsed(verifs, cause[v].secret)
        /\ ~HasExpired(verifs, cause[v].secret, now)
        /\ NeverIssued(verifs, cause[w].secret)

\* One request holds the refusal of a verification code that was used, the
\* other the refusal of a reset secret that expired unused.
C17_RefusedUsedAndExpired ==
    \E v, w \in Workers :
        /\ resp[v] = VerifyTokenNotFound
        /\ resp[w] = ResetTokenNotFound
        /\ AlreadyUsed(verifs, cause[v].secret)
        /\ HasExpired(resets, cause[w].secret, now)
        /\ ~AlreadyUsed(resets, cause[w].secret)

\* C18: every verification and every reset record with used = true has a
\* used_at.
C18_UsedHasUsedAt ==
    /\ \A i \in 1..Len(verifs) : verifs[i].used => verifs[i].used_at # NULL
    /\ \A i \in 1..Len(resets) : resets[i].used => resets[i].used_at # NULL

\* A verification record and a reset record have both been marked used.
C18_BothKindsUsed ==
    /\ \E i \in 1..Len(verifs) : verifs[i].used
    /\ \E i \in 1..Len(resets) : resets[i].used

ForgotCauses == {"forgot_no_account", "forgot_unverified", "reset_sent"}

\* C19: ForgotPassword answers a well-formed email with the same status and
\* body whether no account has the email, the account is unverified, or
\* the account is verified and a reset record was created.
C19_ForgotEnumerationResistant ==
    \A a, b \in Workers :
        cause[a].why \in ForgotCauses /\ cause[b].why \in ForgotCauses
        => resp[a] = resp[b]

\* One client was answered for an address without an account, the other
\* for the verified account, for which a reset record was created.
C19_NoAccountAndVerified ==
    \E a, b \in Workers :
        /\ cause[a].why = "forgot_no_account"
        /\ cause[b].why = "reset_sent"
        /\ resp[b].code = 200
        /\ Len(resets) = 1

\* One client was answered for an address without an account, the other
\* for the account before it was verified.
C19_NoAccountAndUnverified ==
    \E a, b \in Workers :
        /\ cause[a].why = "forgot_no_account"
        /\ cause[b].why = "forgot_unverified"
        /\ Len(resets) = 0

\* The stored credential is what hashing this password gives.
HashOf(password, encodedHash) ==
    \E s \in Salts :
        encodedHash =
            Hashed(password, s).encodedHash

\* C20: Register leaves an unverified account and an unused record with
\* its 8-digit code; a VerifyEmail that finds that record makes the account
\* verified; and a login that follows for the verified, unlocked account
\* with the password it was registered with is answered 200 with a token
\* whose sub is the account id, iss "flight-history-app" and aud
\* "flight-history-users".
C20_EndToEnd ==
    [][\A w \in Workers :
          /\ pc[w] = "register_verification" /\ pc'[w] = "idle"
             => LET r == verifs'[Len(verifs')]
                    u == users'[local[w].user.id]
                IN
                /\ resp'[w].code = 200
                /\ Len(verifs') = Len(verifs) + 1
                /\ r.user_id = u.id /\ ~r.used
                /\ validateVerificationToken(r.token) = NoError
                /\ ~u.is_verified
          /\ pc[w] = "idle" /\ pc'[w] = "verify_user"
             => verifs[local'[w].rec].token = local'[w].token
          /\ pc[w] = "verify_update" /\ pc'[w] = "verify_mark"
             => users'[verifs[local[w].rec].user_id].is_verified
          /\ pc[w] = "verify_mark" /\ pc'[w] = "idle"
             => /\ resp'[w] = VerifyEmailSuccess
                /\ users[verifs[local[w].rec].user_id].is_verified
          /\ /\ pc[w] = "login_check" /\ pc'[w] = "idle"
             /\ local[w].user.is_verified
             /\ ~IsLocked(local[w].user, now)
             /\ HashOf(local[w].password, local[w].user.password)
             => /\ resp'[w].code = 200
                /\ resp'[w].token.sub = local[w].user.id
                /\ resp'[w].token.sub = users[local[w].user.id].id
                /\ resp'[w].token.iss = "flight-history-app"
                /\ resp'[w].token.aud = "flight-history-users"
    ]_vars

\* An account was registered and verified with its code, no login for it
\* has failed, and a login with its password holds a 200 and the token.
C20_RegisteredVerifiedLoggedIn ==
    \E w \in Workers, u \in 1..Len(users), i \in 1..Len(verifs) :
        /\ verifs[i].user_id = u /\ verifs[i].used /\ hist.verif[i].won = 1
        /\ users[u].is_verified
        /\ users[u].last_login_at # NULL
        /\ streak[u] = FreshStreak
        /\ cause[w].why = "accepted"
        /\ resp[w].code = 200
        /\ resp[w].token.sub = u


(***************************************************************************)
(* The credential codec on its own: GenerateFromPassword, DecodeHash and   *)
(* ComparePasswordAndHash applied to drawn passwords, parameter sets and   *)
(* salts, and DecodeHash applied to credentials no encoder wrote.          *)
(***************************************************************************)
CodecPasswords == {PwA, PwB, <<>>}

\* The *PasswordParams a caller can pass: the fields are unsigned and
\* nothing validates them.
ParamSets ==
    [memory : {8, defaultPasswordParams.memory},
     iterations : {0, 1, defaultPasswordParams.iterations},
     parallelism : {0, defaultPasswordParams.parallelism, 2},
     saltLength : {0, 8, defaultPasswordParams.saltLength},
     keyLength : {16, defaultPasswordParams.keyLength}]

\* strings.Join(vals, sep), to write credentials field by field.
RECURSIVE Join(_, _)
Join(vals, sep) ==
    IF Len(vals) = 1 THEN vals[1]
    ELSE vals[1] \o sep \o Join(Tail(vals), sep)

\* Credentials as a store may hold them without GenerateFromPassword having
\* written them: the fields of a good one, with one of them changed.
CraftedCredential(name) ==
    LET good == Split(Hashed(PwA, DefaultSalt).encodedHash, "$")
        Written(vals) == Join(vals, <<"$">>)
    IN
    CASE name = "good" -> Written(good)
      [] name = "empty" -> <<>>
      [] name = "five fields" -> Written(SubSeq(good, 1, 5))
      [] name = "seven fields" -> Written(good \o <<<<"x">>>>)
      [] name = "version 16" -> Written([good EXCEPT ![3] = <<"v","=","1","6">>])
      [] name = "version x" -> Written([good EXCEPT ![3] = <<"v","=","x">>])
      [] name = "no parallelism" ->
            Written([good EXCEPT ![4] = <<"m","=","8",",","t","=","1">>])
      [] name = "parallelism 256" ->
            Written([good EXCEPT ![4] =
                <<"m","=","8",",","t","=","1",",","p","=","2","5","6">>])
      [] name = "salt not base64" -> Written([good EXCEPT ![5] = @ \o <<"!">>])
      [] name = "salt padded" -> Written([good EXCEPT ![5] = @ \o <<"=","=">>])
      [] name = "key not base64" -> Written([good EXCEPT ![6] = <<"*">> \o @])
      [] name = "key one character" -> Written([good EXCEPT ![6] = <<"A">>])
      [] name = "argon2i" ->
            Written([good EXCEPT ![2] = <<"a","r","g","o","n","2","i">>])

CraftedNames ==
    {"good", "empty", "five fields", "seven fields", "version 16", "version x",
     "no parallelism", "parallelism 256", "salt not base64", "salt padded",
     "key not base64", "key one character", "argon2i"}

\* A call of the codec: the password and the parameter set handed to
\* GenerateFromPassword with the bytes rand.Read gave it, the credential
\* DecodeHash or ComparePasswordAndHash was given, where that credential
\* came from, the password compared, and what the call returned.
CodecCall(op, password, p, salt, encodedHash, from, other, result) ==
    [op |-> op, password |-> password, p |-> p, salt |-> salt,
     encodedHash |-> encodedHash, from |-> from, other |-> other,
     result |-> result]

CodecInit ==
    /\ JWT_SECRET = GoodSecret
    /\ now = 0
    /\ ticks = 0
    /\ users = <<>>
    /\ verifs = <<>>
    /\ resets = <<>>
    /\ pc = [w \in Workers |-> "idle"]
    /\ local = [w \in Workers |-> NoLocal]
    /\ resp = [w \in Workers |-> NoResponse]
    /\ cause = [w \in Workers |-> NoCause]
    /\ hist = [verif |-> <<>>, reset |-> <<>>]
    /\ streak = <<>>
    /\ tasks = {}
    /\ cache = NewCache
    /\ writerPool = NewCacheResponseWriterPool(PoolSize)
    /\ writer = [w \in Workers |-> NoWriter]
    /\ served = [k \in HTTPKeys |-> {}]
    /\ \E password \in CodecPasswords, p \in ParamSets :
         \E salt \in GenerateRandomBytes(p.saltLength) :
            call = CodecCall("input", password, p, salt, <<>>, "none", <<>>,
                             NoError)

\* hash, err := GenerateFromPassword(password, p)
CallGenerateFromPassword ==
    /\ call.op = "input"
    /\ LET g == GenerateFromPassword(call.password, call.p, call.salt) IN
       call' = [call EXCEPT !.op = "GenerateFromPassword",
                            !.encodedHash = g.encodedHash,
                            !.from = "GenerateFromPassword",
                            !.result = g]
    /\ UNCHANGED <<http, JWT_SECRET, now, ticks, users, verifs, resets, pc, local,
                   resp, cause, hist, streak, tasks, cache>>

\* GenerateFromPassword returned an encoded hash.
Produced ==
    /\ call.op = "GenerateFromPassword"
    /\ call.result.err = NoError
    /\ ~call.result.panic

\* DecodeHash(hash) of the hash GenerateFromPassword returned.
CallDecodeHash ==
    /\ Produced
    /\ call' = [call EXCEPT !.op = "DecodeHash",
                            !.result = DecodeHash(call.encodedHash)]
    /\ UNCHANGED <<http, JWT_SECRET, now, ticks, users, verifs, resets, pc, local,
                   resp, cause, hist, streak, tasks, cache>>

\* DecodeHash of a credential GenerateFromPassword did not write.
CallDecodeHashCrafted(name) ==
    /\ call.op = "input"
    /\ call' = [call EXCEPT !.op = "DecodeHash",
                            !.encodedHash = CraftedCredential(name),
                            !.from = name,
                            !.result = DecodeHash(CraftedCredential(name))]
    /\ UNCHANGED <<http, JWT_SECRET, now, ticks, users, verifs, resets, pc, local,
                   resp, cause, hist, streak, tasks, cache>>

\* ComparePasswordAndHash(other, hash) of the hash GenerateFromPassword
\* returned.
CallComparePasswordAndHash(other) ==
    /\ Produced
    /\ call' = [call EXCEPT !.op = "ComparePasswordAndHash",
                            !.other = other,
                            !.result = ComparePasswordAndHash(other,
                                                              call.encodedHash)]
    /\ UNCHANGED <<http, JWT_SECRET, now, ticks, users, verifs, resets, pc, local,
                   resp, cause, hist, streak, tasks, cache>>

CodecNext ==
    \/ CallGenerateFromPassword
    \/ CallDecodeHash
    \/ \E name \in CraftedNames : CallDecodeHashCrafted(name)
    \/ \E other \in CodecPasswords : CallComparePasswordAndHash(other)

CodecSpec == CodecInit /\ [][CodecNext]_vars

\* C21: for every password and every parameter set, whatever salt rand.Read
\* gave, GenerateFromPassword returns an encoded hash, and
\* ComparePasswordAndHash of the same password and that hash returns
\* match = true and no error.
C21_CompareAcceptsGenerated ==
    /\ call.op = "GenerateFromPassword" /\ call.salt # ReadError
        => /\ ~call.result.panic
           /\ call.result.err = NoError
    /\ call.op = "ComparePasswordAndHash" /\ call.other = call.password
        => /\ ~call.result.panic
           /\ call.result.err = NoError
           /\ call.result.match

\* C22: DecodeHash of a string GenerateFromPassword(password, params)
\* produced succeeds; memory, iterations and parallelism are those of params,
\* the salt has params.saltLength bytes and the key params.keyLength bytes,
\* and saltLength and keyLength are the lengths of the decoded bytes.
C22_DecodeRecoversParams ==
    call.op = "DecodeHash" /\ call.from = "GenerateFromPassword"
    => /\ call.result.err = NoError
       /\ \E d \in call.result.p, salt \in call.result.salt,
             hash \in call.result.hash :
             /\ d.memory = call.p.memory
             /\ d.iterations = call.p.iterations
             /\ d.parallelism = call.p.parallelism
             /\ Len(salt) = call.p.saltLength
             /\ salt = call.salt
             /\ Len(hash) = call.p.keyLength
             /\ d.saltLength = Len(salt)
             /\ d.keyLength = Len(hash)

\* A hash of parameters other than the defaults, with a salt of eight bytes
\* and a key of sixteen, was decoded.
C22_DecodedShortSaltAndKey ==
    /\ call.op = "DecodeHash" /\ call.from = "GenerateFromPassword"
    /\ call.p.saltLength = 8 /\ call.p.keyLength = 16
    /\ call.p.memory = 8 /\ call.p.parallelism = 2
    /\ call.result.err = NoError

\* C23: DecodeHash answers ErrInvalidHash for a credential that does not
\* have six fields, ErrIncompatibleVersion for one whose version is not
\* argon2.Version, ErrInvalidHash for one whose salt or key is not valid
\* base64, and in every failure it returns no params, no salt and no key.
C23_DecodeFailures ==
    call.op = "DecodeHash"
    => LET vals == Split(call.encodedHash, "$")
           version == ScanInteger(ScanLiteral(Scanning(vals[3]), <<"v","=">>),
                                  TRUE, 2^30)
           result == call.result
       IN
       /\ Len(vals) # 6 => result.err = "ErrInvalidHash"
       /\ Len(vals) = 6 /\ version.err = NoError
              /\ version.values[1] # Argon2Version
            => result.err = "ErrIncompatibleVersion"
       /\ call.from \in {"salt not base64", "salt padded", "key not base64",
                         "key one character"}
            => result.err = "ErrInvalidHash"
       /\ result.err # NoError
            => result.p = {} /\ result.salt = {} /\ result.hash = {}


(***************************************************************************)
(* The background rehash.                                                  *)
(***************************************************************************)
\* What RehashPasswordIfNeeded does up to its UpdateOne, given the bytes
\* rand.Read gives GenerateFromPassword: it returns after a decode error,
\* returns when the three costs of the hash Login read are the present
\* ones, returns after a hashing error, or has a new hash to store.
RehashDecision(task, salt) ==
    LET d == Decoded(task.user.password)
        p == CHOOSE x \in d.p : TRUE
        g == Hashed(task.password, salt)
    IN
    IF d.err # NoError THEN [why |-> "decode error", hashedPassword |-> NoCred]
    ELSE IF ~(\/ p.parallelism # defaultPasswordParams.parallelism
              \/ p.memory # defaultPasswordParams.memory
              \/ p.iterations # defaultPasswordParams.iterations)
    THEN [why |-> "current", hashedPassword |-> NoCred]
    ELSE IF g.err # NoError
    THEN [why |-> "hashing error", hashedPassword |-> NoCred]
    ELSE [why |-> "rehash", hashedPassword |-> g.encodedHash]

\* One goroutine runs RehashPasswordIfNeeded to its end; stored says whether
\* its UpdateOne succeeds.  call keeps what became of it.
RehashPasswordIfNeeded(task, salt, stored) ==
    LET decision == RehashDecision(task, salt) IN
    /\ task \in tasks
    /\ tasks' = tasks \ {task}
    /\ users' = IF decision.why = "rehash" /\ stored
                THEN [users EXCEPT ![task.user.id].password =
                         decision.hashedPassword]
                ELSE users
    /\ call' = [op |-> "RehashPasswordIfNeeded", task |-> task,
                why |-> IF decision.why = "rehash" /\ ~stored
                        THEN "store error" ELSE decision.why]
    /\ UNCHANGED <<http, JWT_SECRET, now, ticks, verifs, resets, pc, local, resp,
                   cause, hist, streak, cache>>

\* One verified account of an earlier release, with password PwA.
LegacyInit ==
    /\ JWT_SECRET = GoodSecret
    /\ now = 0
    /\ ticks = 0
    /\ \E p \in LegacyParamSets :
          users = <<[NewUser(1, EmailA, LegacyCredential(p))
                        EXCEPT !.is_verified = TRUE, !.verified_at = 0]>>
    /\ verifs = <<>>
    /\ resets = <<>>
    /\ pc = [w \in Workers |-> "idle"]
    /\ local = [w \in Workers |-> NoLocal]
    /\ resp = [w \in Workers |-> NoResponse]
    /\ cause = [w \in Workers |-> NoCause]
    /\ hist = [verif |-> <<>>, reset |-> <<>>]
    /\ streak = <<FreshStreak>>
    /\ tasks = {}
    /\ cache = NewCache
    /\ call = NoCall
    /\ writerPool = NewCacheResponseWriterPool(PoolSize)
    /\ writer = [w \in Workers |-> NoWriter]
    /\ served = [k \in HTTPKeys |-> {}]

\* Logins to the legacy account on one worker until one had the wrong
\* password, a password reset on the other, and the goroutines of the
\* accepted logins, all concurrently.
RehashNext ==
    \/ \E p \in LoginPasswords :
          users[1].login_attempts = 0 /\ LoginFind("w1", EmailA, p)
    \/ LoginCheck("w1", 0)
    \/ \E t \in ResetSecrets : ForgotPasswordBegin("w2", EmailA, t)
    \/ ForgotPasswordInsert("w2", NoError)
    \/ \E t \in ResetSecrets : ResetPasswordBegin("w2", t, PwB)
    \/ ResetPasswordFindUser("w2")
    \/ \E s \in Salts : ResetPasswordUpdateUser("w2", s)
    \/ ResetPasswordMarkUsed("w2", NoError)
    \/ \E task \in tasks, stored \in BOOLEAN :
          \E salt \in GenerateRandomBytes(defaultPasswordParams.saltLength) :
             RehashPasswordIfNeeded(task, salt, stored)

RehashSpec == LegacyInit /\ [][RehashNext]_vars

\* The memory cost, the time cost and the parallelism of a credential.
Costs(encodedHash) ==
    LET p == CHOOSE x \in Decoded(encodedHash).p : TRUE IN
    <<p.memory, p.iterations, p.parallelism>>

CurrentCosts ==
    <<defaultPasswordParams.memory, defaultPasswordParams.iterations,
      defaultPasswordParams.parallelism>>

\* C24: a background rehash whose hashing and store calls succeed rewrites
\* the stored credential if and only if the memory cost, the time cost or
\* the parallelism of that credential differs from the present parameters:
\* a stored credential with the three present costs is never rewritten,
\* whatever the lengths of its salt and key.
C24_RewrittenIffOutdated ==
    [][\A task \in tasks :
          /\ tasks' = tasks \ {task}
          /\ call'.op = "RehashPasswordIfNeeded"
          /\ call'.task = task
          /\ call'.why \notin {"hashing error", "store error"}
          => LET stored == users[task.user.id].password
                 after == users'[task.user.id].password
             IN /\ after # stored <=> Costs(stored) # CurrentCosts
                /\ Costs(stored) = CurrentCosts => users' = users
    ]_vars

\* C25: an accepted Login responds, with the outcome and the token it made
\* from the account it read, while its rehash goroutine has not run, and no
\* run of a rehash goroutine, whether it finds the hash current, stores a
\* new one or fails, changes a response or holds a handler up.
C25_RehashDetached ==
    [][/\ \A w \in Workers :
            pc[w] = "login_check" /\ cause'[w].why = "accepted"
            => /\ pc'[w] = "idle"
               /\ \E lag \in ClockLags :
                     resp'[w] = LoginResponse("accepted", local[w].user, now,
                                              now + lag)
               /\ RehashTask(local[w].password, local[w].user) \in tasks'
       /\ tasks' # tasks /\ tasks' \subseteq tasks
            => resp' = resp /\ pc' = pc /\ cause' = cause /\ local' = local
    ]_vars

\* An accepted login holds its 200 and its token after its rehash failed at
\* the store.
C25_AcceptedAndRehashFailed ==
    /\ call.op = "RehashPasswordIfNeeded"
    /\ call.why = "store error"
    /\ cause["w1"].why = "accepted"
    /\ resp["w1"].code = 200
    /\ resp["w1"].token # NoToken


(***************************************************************************)
(* generateVerificationToken on its own.                                   *)
(***************************************************************************)
\* The bytes rand.Read may put at each of the four places: among the words
\* they make are 0, 89999999, 90000000 and 4294967295.
TokenBytes == {0, 5, 74, 93, 127, 128, 255}

\* fmt.Sprintf("%08d", n): the decimal digits, with zeros in front up to
\* a width of eight.
Sprintf08d(n) ==
    LET digits == FormatUint(n) IN
    [i \in 1..(8 - Len(digits)) |-> "0"] \o digits

\* randomNum % modulus for the uint32 randomNum the four bytes make, most
\* significant first.  randomNum itself may exceed what a signed 32-bit
\* number holds: the remainder is taken byte by byte, and the shift by
\* eight bits in two steps of four.
WordMod(bytes, modulus) ==
    LET Shift(x) == (((x * 16) % modulus) * 16) % modulus
        Push(x, byte) == (Shift(x) + byte) % modulus
    IN Push(Push(Push(Push(0, bytes[1]), bytes[2]), bytes[3]), bytes[4])

\* A generator that takes the last eight digits of the word.
generateVerificationTokenLastDigits(bytes) ==
    IF bytes = ReadError
    THEN [token |-> <<>>, err |-> "failed to generate random bytes"]
    ELSE [token |-> Sprintf08d(WordMod(bytes, 100000000)), err |-> NoError]

\* generateVerificationToken, given what rand.Read did with the four bytes.
generateVerificationToken(bytes) ==
    IF bytes = ReadError
    THEN [token |-> <<>>, err |-> "failed to generate random bytes"]
    ELSE [token |-> Sprintf08d(10000000 + WordMod(bytes, 90000000)),
          err |-> NoError]

TokenInit ==
    /\ JWT_SECRET = GoodSecret
    /\ now = 0
    /\ ticks = 0
    /\ users = <<>>
    /\ verifs = <<>>
    /\ resets = <<>>
    /\ pc = [w \in Workers |-> "idle"]
    /\ local = [w \in Workers |-> NoLocal]
    /\ resp = [w \in Workers |-> NoResponse]
    /\ cause = [w \in Workers |-> NoCause]
    /\ hist = [verif |-> <<>>, reset |-> <<>>]
    /\ streak = <<>>
    /\ tasks = {}
    /\ cache = NewCache
    /\ writerPool = NewCacheResponseWriterPool(PoolSize)
    /\ writer = [w \in Workers |-> NoWriter]
    /\ served = [k \in HTTPKeys |-> {}]
    /\ \E bytes \in [1..4 -> TokenBytes] \cup {ReadError} :
          call = [op |-> "input", bytes |-> bytes, token |-> <<>>,
                  err |-> NoError]

\* verificationToken, err := generateVerificationToken()
CallGenerateVerificationToken ==
    /\ call.op = "input"
    /\ LET g == generateVerificationToken(call.bytes) IN
       call' = [call EXCEPT !.op = "generateVerificationToken",
                            !.token = g.token, !.err = g.err]
    /\ UNCHANGED <<http, JWT_SECRET, now, ticks, users, verifs, resets, pc, local,
                   resp, cause, hist, streak, tasks, cache>>

\* validateVerificationToken(form.Token) for the token that was generated.
CallValidateVerificationToken ==
    /\ call.op = "generateVerificationToken"
    /\ call.err = NoError
    /\ call' = [call EXCEPT !.op = "validateVerificationToken",
                            !.err = validateVerificationToken(call.token)]
    /\ UNCHANGED <<http, JWT_SECRET, now, ticks, users, verifs, resets, pc, local,
                   resp, cause, hist, streak, tasks, cache>>

TokenNext ==
    \/ CallGenerateVerificationToken
    \/ CallValidateVerificationToken

TokenSpec == TokenInit /\ [][TokenNext]_vars

\* C26: for every 32-bit random word generateVerificationToken returns a
\* string of exactly eight decimal digits whose value lies in
\* 10000000..99999999, and validateVerificationToken accepts it.
C26_EightDigitToken ==
    /\ call.op = "generateVerificationToken" /\ call.bytes # ReadError
        => /\ call.err = NoError
           /\ Len(call.token) = 8
           /\ \A i \in 1..Len(call.token) : call.token[i] \in DigitC
           /\ ParseDigits(0, call.token) \in 10000000..99999999
           /\ validateVerificationToken(call.token) = NoError
    /\ call.op = "validateVerificationToken" => call.err = NoError

\* The word 90000000, the first that wraps to the lowest token, was drawn
\* and its token validated.
C26_WrappedWordValidated ==
    /\ call.op = "validateVerificationToken"
    /\ call.bytes = <<5, 93, 74, 128>>
    /\ call.token = <<"1","0","0","0","0","0","0","0">>


(***************************************************************************)
(* Mail that may not be sent.                                              *)
(***************************************************************************)
\* Registration, verification, reset request and reset, one request at a
\* time, with a mail service that may fail and a store whose marking of a
\* used token may fail.
MailNext ==
    \E w \in Workers :
        \/ \E c \in VerificationCodes, s \in Salts :
              Alone(w) /\ RegisterBegin(w, EmailA, PwA, c, s)
        \/ RegisterInsert(w)
        \/ \E mail \in SendOutcomes : RegisterCreateVerification(w, mail)
        \/ \E t \in VerificationCodes : Alone(w) /\ VerifyEmailBegin(w, t)
        \/ VerifyEmailFindUser(w)
        \/ VerifyEmailUpdateUser(w)
        \/ \E mail \in SendOutcomes : VerifyEmailMarkUsed(w, mail)
        \/ \E mail \in SendOutcomes : VerifyEmailMarkUsedFails(w, mail)
        \/ \E t \in ResetSecrets : Alone(w) /\ ForgotPasswordBegin(w, EmailA, t)
        \/ \E mail \in SendOutcomes : ForgotPasswordInsert(w, mail)
        \/ \E t \in ResetSecrets : Alone(w) /\ ResetPasswordBegin(w, t, PwB)
        \/ ResetPasswordFindUser(w)
        \/ \E s \in Salts : ResetPasswordUpdateUser(w, s)
        \/ \E mail \in SendOutcomes : ResetPasswordMarkUsed(w, mail)
        \/ \E mail \in SendOutcomes : ResetPasswordMarkUsedFails(w, mail)

MailSpec == Init /\ [][MailNext]_vars

\* C27: Register, VerifyEmail, ForgotPassword and ResetPassword answer the
\* same and leave the same users, verifications and resets whether their
\* Send call returns nil or an error: the step a handler takes with a Send
\* error ends in the success response of that handler and in the store the
\* handler's writes before the Send call made.
C27_MailFailureIgnored ==
    [][\A w \in Workers, mail \in SendOutcomes :
          /\ RegisterCreateVerification(w, mail)
              => /\ resp'[w] = Response(200, "Registration successful. Please check your email to verify your account.")
                 /\ CreateEmailVerification(local[w].user.id,
                                            local[w].user.email, local[w].token)
                 /\ users' = users /\ resets' = resets
          /\ VerifyEmailMarkUsed(w, mail) \/ VerifyEmailMarkUsedFails(w, mail)
              => /\ resp'[w] = VerifyEmailSuccess
                 /\ verifs' \in {verifs, [verifs EXCEPT ![local[w].rec] =
                                             MarkUsed(@, local[w].t)]}
                 /\ users' = users /\ resets' = resets
          /\ ForgotPasswordInsert(w, mail)
              => /\ resp'[w] = ForgotPasswordSuccess
                 /\ resets' = Append(resets,
                        NewActionToken(local[w].user.id, local[w].user.email,
                                       local[w].token, now, ResetTTL))
                 /\ users' = users /\ verifs' = verifs
          /\ ResetPasswordMarkUsed(w, mail) \/ ResetPasswordMarkUsedFails(w, mail)
              => /\ resp'[w] = ResetPasswordSuccess
                 /\ resets' \in {resets, [resets EXCEPT ![local[w].rec] =
                                             MarkUsed(@, local[w].t)]}
                 /\ users' = users /\ verifs' = verifs
    ]_vars

\* A password was reset with a 200 although the confirmation mail was not
\* sent.
C27_ResetAnsweredWithoutMail ==
    \E w \in Workers :
        /\ call.op = "log.Printf"
        /\ call.send = "SendPasswordChangeConfirmationEmail"
        /\ cause[w].why = "password_reset"
        /\ resp[w] = ResetPasswordSuccess
        /\ Compared(PwB, users[1].password).match


(***************************************************************************)
(* The cache: cache.go over ristretto.  A Set of a key the store does not  *)
(* hold is buffered in setBuf and reaches the store when the cache's own   *)
(* goroutine, processItems, takes it from there; a Set of a key the store  *)
(* holds, and every Del, change the store at once and are buffered for the *)
(* policy.                                                                 *)
(***************************************************************************)
\* Values the callers cache: a Go value by its type and its literal.
CacheValues ==
    {[type |-> "string", val |-> <<"1","2","3">>],
     [type |-> "int", val |-> <<"4","2">>]}

\* What the pointer a caller passes to a Get points to.
CacheTargets == {"string", "int", "interface{}"}

\* The time to live the callers ask for.
CacheTTLs == {Hour}

(***************************************************************************)
(* CachedResponse and its JSON.                                            *)
(***************************************************************************)
\* The Content-Type values of the model: what RespondWithJSON sets, and what
\* http.DetectContentType gives for a text.
ApplicationJSON == <<"a","p","p","l","i","c","a","t","i","o","n","/","j","s","o","n">>
TextPlain == <<"t","e","x","t","/","p","l","a","i","n",";"," ","c","h","a","r","s","e","t","=","u","t","f","-","8">>

\* The bodies handlers write.
BodyA == <<"{","\"","a","\"",":","1","}">>
BodyB == <<"[","]">>

\* The text json.Marshal writes around the fields of a CachedResponse, in
\* the order of its fields; the Headers of the model are a map without
\* entries.
JSONStatusCode ==
    <<"{","\"","s","t","a","t","u","s","_","c","o","d","e","\"",":">>
JSONContentType ==
    <<",","\"","c","o","n","t","e","n","t","_","t","y","p","e","\"",":","\"">>
JSONHeaders ==
    <<"\"",",","\"","h","e","a","d","e","r","s","\"",":","{","}",",","\"","b","o","d","y","\"",":","\"">>
JSONEnd ==
    <<"\"","}">>

\* []byte(s) and string(b) for the characters of the model.
Bytes(s) == [i \in 1..Len(s) |-> CharCode(s[i])]
Chars(b) == [i \in 1..Len(b) |-> Ascii[b[i] - 31]]

\* base64.StdEncoding.DecodeString: the text has a length that is a
\* multiple of four, with its padding at the end.
DecodeStringPadded(str) ==
    LET n == Len(str)
        pad == IF n >= 2 /\ str[n] = "=" /\ str[n - 1] = "=" THEN 2
               ELSE IF n >= 1 /\ str[n] = "=" THEN 1
               ELSE 0
    IN IF n % 4 # 0
       THEN [err |-> "base64.CorruptInputError", bytes |-> <<>>]
       ELSE DecodeString(SubSeq(str, 1, n - pad))

\* The decoder reads a string up to the quote that ends it; the strings of
\* the model need no escapes.
ScanQuoted(in) ==
    IF in.err # NoError THEN in
    ELSE IF \A i \in 1..Len(in.rest) : in.rest[i] # "\""
    THEN [in EXCEPT !.err = "json: unexpected end of JSON input"]
    ELSE LET k == CHOOSE i \in 1..Len(in.rest) :
                     in.rest[i] = "\"" /\ \A j \in 1..(i - 1) : in.rest[j] # "\""
         IN [in EXCEPT !.rest = SubSeq(in.rest, k, Len(in.rest)),
                       !.values = Append(@, SubSeq(in.rest, 1, k - 1))]

\* A CachedResponse as a value of the cache.
CachedResponse(StatusCode, ContentType, Headers, Body) ==
    [type |-> "CachedResponse",
     val |-> [StatusCode |-> StatusCode, ContentType |-> ContentType,
              Headers |-> Headers, Body |-> Body]]

\* json.Marshal of a CachedResponse: the status as a number, the content
\* type as a string, the body in base64.
marshalCachedResponse(r) ==
    JSONStatusCode \o FormatUint(r.StatusCode)
        \o JSONContentType \o r.ContentType
        \o JSONHeaders \o EncodeToStringPadded(Bytes(r.Body))
        \o JSONEnd

\* What the decoder has read becomes the CachedResponse.
CachedResponseOf(in) ==
    IF in.err # NoError \/ in.rest # <<>>
    THEN [err |-> "json: invalid character", value |-> <<>>]
    ELSE IF DecodeStringPadded(in.values[3]).err # NoError
    THEN [err |-> "json: illegal base64 data", value |-> <<>>]
    ELSE [err |-> NoError,
          value |-> CachedResponse(in.values[1], in.values[2], {},
                       Chars(DecodeStringPadded(in.values[3]).bytes))]

\* json.Unmarshal into a *CachedResponse, of a text json.Marshal wrote for
\* one.
unmarshalCachedResponse(data) ==
    CachedResponseOf(
        ScanLiteral(
            ScanQuoted(
                ScanLiteral(
                    ScanQuoted(
                        ScanLiteral(
                            ScanInteger(
                                ScanLiteral(Scanning(data), JSONStatusCode),
                                TRUE, 2147483647),
                            JSONContentType)),
                    JSONHeaders)),
            JSONEnd))

\* json.Marshal: a string between quotes, a number by its digits, a
\* CachedResponse as an object.
jsonMarshal(value) ==
    IF value.type = "string" THEN <<"\"">> \o value.val \o <<"\"">>
    ELSE IF value.type = "CachedResponse" THEN marshalCachedResponse(value.val)
    ELSE value.val

\* json.Unmarshal(data, target): a string goes to a *string and as a string
\* to an *interface{}, a number to an *int and as a float64 to an
\* *interface{}, an object to a *CachedResponse and as a map to an
\* *interface{}; everything else is an error.
jsonUnmarshal(data, target) ==
    IF Len(data) >= 2 /\ Head(data) = "\"" /\ data[Len(data)] = "\""
    THEN IF target \in {"string", "interface{}"}
         THEN [err |-> NoError,
               value |-> [type |-> "string",
                          val |-> SubSeq(data, 2, Len(data) - 1)]]
         ELSE [err |-> "json: cannot unmarshal string", value |-> <<>>]
    ELSE IF data # <<>> /\ Head(data) = "{"
    THEN IF target = "CachedResponse"
         THEN unmarshalCachedResponse(data)
         ELSE IF target = "interface{}"
         THEN [err |-> NoError,
               value |-> [type |-> "map[string]interface{}", val |-> data]]
         ELSE [err |-> "json: cannot unmarshal object", value |-> <<>>]
    ELSE IF data # <<>> /\ \A i \in 1..Len(data) : data[i] \in DigitC
    THEN IF target = "int"
         THEN [err |-> NoError, value |-> [type |-> "int", val |-> data]]
         ELSE IF target = "interface{}"
         THEN [err |-> NoError, value |-> [type |-> "float64", val |-> data]]
         ELSE [err |-> "json: cannot unmarshal number", value |-> <<>>]
    ELSE [err |-> "json: invalid character", value |-> <<>>]

\* gob.NewEncoder(&buf).Encode(value): the type of the value, then the value.
gobEncode(value) == <<"gob", value.type>> \o value.val

\* gob.NewDecoder(buf).Decode(target): the value, where the target has the
\* type that was sent; an error for any other target and for other bytes.
gobDecode(data, target) ==
    IF Len(data) >= 2 /\ data[1] = "gob" /\ data[2] = target
    THEN [err |-> NoError,
          value |-> [type |-> data[2], val |-> SubSeq(data, 3, Len(data))]]
    ELSE [err |-> "gob: decode", value |-> <<>>]

\* What a call of the cache returned, and for a Get what the history of the
\* key was: due says that the key was set last with this value and this
\* codec, was not deleted or cleared since and has not expired, and that
\* the target can hold the value.
CacheCall(op, key, value, ok, told, due, expected) ==
    [op |-> op, key |-> key, value |-> value, ok |-> ok, told |-> told,
     due |-> due, expected |-> expected]

\* cache.SetWithTTL(key, data, cost, ttl) returns true: the item went
\* into setBuf, or it is an update, which is made whether or not setBuf
\* has room.
SetAccepted(key) ==
    Len(cache.setBuf) < SetBufSize \/ cache.store[key].present

\* The cache after cache.SetWithTTL(key, data, cost, ttl).
CacheAfterSet(codec, key, value, data, ttl) ==
    LET item == [flag |-> IF cache.store[key].present THEN "itemUpdate"
                          ELSE "itemNew",
                 key |-> key, value |-> data, expiration |-> now + ttl]
        buffered == Len(cache.setBuf) < SetBufSize
    IN
    [cache EXCEPT
       !.store[key] = IF item.flag = "itemUpdate"
                      THEN [present |-> TRUE, value |-> data,
                            expiration |-> now + ttl]
                      ELSE @,
       !.setBuf = IF buffered THEN Append(@, item) ELSE @,
       !.said[key] = IF SetAccepted(key)
                     THEN [state |-> "set", value |-> value,
                           codec |-> codec, expiration |-> now + ttl]
                     ELSE @]

\* cache.SetWithTTL(key, data, cost, ttl), as the two setters call it.
SetWithTTL(op, codec, key, value, data, ttl) ==
    /\ cache' = CacheAfterSet(codec, key, value, data, ttl)
    /\ call' = CacheCall(op, key, <<>>, SetAccepted(key), "", FALSE, <<>>)
    /\ UNCHANGED <<http, JWT_SECRET, now, ticks, users, verifs, resets, pc, local,
                   resp, cause, hist, streak, tasks>>

\* SetCacheWithTTL; SetCache is the call with a ttl of 24 hours.
SetCacheWithTTL(key, value, ttl) ==
    SetWithTTL("SetCacheWithTTL", "json", key, value, jsonMarshal(value), ttl)

SetCacheWithTTLBinary(key, value, ttl) ==
    SetWithTTL("SetCacheWithTTLBinary", "gob", key, value, gobEncode(value),
               ttl)

\* cache.Get(key) and the decoding of what it found: whether the getter
\* returns true, and what it has put into the target.
Lookup(codec, key, target) ==
    LET item == cache.store[key]
        found == item.present /\ ~(now > item.expiration)
        decoded == IF codec = "json" THEN jsonUnmarshal(item.value, target)
                   ELSE gobDecode(item.value, target)
    IN [ok |-> found /\ decoded.err = NoError, value |-> decoded.value]

\* A getter, called.
Get(op, codec, key, target) ==
    LET decoded == Lookup(codec, key, target)
        told == cache.said[key]
        ok == decoded.ok
    IN
    /\ call' = CacheCall(op, key, IF ok THEN decoded.value ELSE <<>>, ok,
                         IF told.state = "set" /\ now > told.expiration
                         THEN "expired" ELSE told.state,
                         /\ told.state = "set"
                         /\ ~(now > told.expiration)
                         /\ told.codec = codec
                         /\ \/ target = told.value.type
                            \/ codec = "json" /\ target = "interface{}",
                         told.value)
    /\ UNCHANGED <<http, JWT_SECRET, now, ticks, users, verifs, resets, pc, local,
                   resp, cause, hist, streak, tasks, cache>>

GetCache(key, target) == Get("GetCache", "json", key, target)

GetCacheBinary(key, target) == Get("GetCacheBinary", "gob", key, target)

\* CacheDelete: cache.Del(key) takes the key from the store and sends an
\* itemDelete to setBuf, waiting while setBuf is full.
CacheDelete(key) ==
    /\ Len(cache.setBuf) < SetBufSize
    /\ cache' =
         [cache EXCEPT
            !.store[key] = NoItem,
            !.setBuf = Append(@, [flag |-> "itemDelete", key |-> key,
                                  value |-> <<>>, expiration |-> 0]),
            !.said[key] = IF @.state = "never" THEN @
                          ELSE [NeverSet EXCEPT !.state = "deleted"]]
    /\ call' = CacheCall("CacheDelete", key, <<>>, TRUE, "", FALSE, <<>>)
    /\ UNCHANGED <<http, JWT_SECRET, now, ticks, users, verifs, resets, pc, local,
                   resp, cause, hist, streak, tasks>>

\* CacheClear: cache.Clear() empties setBuf, the policy and the store.
CacheClear ==
    /\ cache' =
         [cache EXCEPT
            !.store = [k \in StoreKeys |-> NoItem],
            !.policy = {},
            !.setBuf = <<>>,
            !.said = [k \in StoreKeys |->
                         IF @[k].state = "set"
                         THEN [NeverSet EXCEPT !.state = "cleared"] ELSE @[k]]]
    /\ call' = CacheCall("CacheClear", "", <<>>, TRUE, "", FALSE, <<>>)
    /\ UNCHANGED <<http, JWT_SECRET, now, ticks, users, verifs, resets, pc, local,
                   resp, cause, hist, streak, tasks>>

\* The cache's goroutine takes the next item from setBuf: a new item is
\* stored if the policy admits it, which it does not when it tracks the
\* key already; an update only concerns the policy; a delete takes the key
\* from the policy and from the store.  The cache has room for every item
\* of the model.
processItems ==
    /\ cache.setBuf # <<>>
    /\ LET i == Head(cache.setBuf)
           added == i.key \notin cache.policy
       IN cache' =
            [cache EXCEPT
               !.setBuf = Tail(@),
               !.policy = CASE i.flag = "itemNew" -> @ \cup {i.key}
                            [] i.flag = "itemUpdate" -> @
                            [] i.flag = "itemDelete" -> @ \ {i.key},
               !.store[i.key] =
                   CASE i.flag = "itemNew" /\ added ->
                           [present |-> TRUE, value |-> i.value,
                            expiration |-> i.expiration]
                     [] i.flag = "itemDelete" -> NoItem
                     [] OTHER -> @]
    /\ UNCHANGED <<http, JWT_SECRET, now, ticks, users, verifs, resets, pc, local,
                   resp, cause, hist, streak, tasks, call>>

\* The cache does not read the environment.
CacheInit == Init /\ JWT_SECRET = <<>>

\* The calls of the JSON pair and of CacheDelete and CacheClear.
CacheCalls(keys, values) ==
    \/ CacheClear
    \/ \E key \in keys :
          \/ CacheDelete(key)
          \/ \E target \in CacheTargets : GetCache(key, target)
          \/ \E value \in values, ttl \in CacheTTLs :
                SetCacheWithTTL(key, value, ttl)

\* The calls of the gob pair.
CacheBinaryCalls(keys, values) ==
    \E key \in keys :
       \/ \E target \in CacheTargets : GetCacheBinary(key, target)
       \/ \E value \in values, ttl \in CacheTTLs :
             SetCacheWithTTLBinary(key, value, ttl)

\* One caller that uses both pairs on one key, the cache's goroutine and
\* the clock.
CacheNext ==
    \/ Tick(2 * Hour)
    \/ processItems
    \/ CacheCalls({"test:key"}, CacheValues)
    \/ CacheBinaryCalls({"test:key"}, CacheValues)

CacheSpec == CacheInit /\ [][CacheNext]_vars

\* One caller that uses the JSON pair on every key, and the cache's
\* goroutine.
CacheDeleteNext ==
    \/ processItems
    \/ CacheCalls(CacheKeys, {v \in CacheValues : v.type = "string"})

CacheDeleteSpec == CacheInit /\ [][CacheDeleteNext]_vars

\* C28: a GetCache of a key for which SetCache or SetCacheWithTTL last
\* returned true, made before the key is deleted, cleared or expired,
\* returns true and a value equal to the one that was set; likewise
\* GetCacheBinary after SetCacheWithTTLBinary.
C28_GetAfterSet ==
    call.op \in {"GetCache", "GetCacheBinary"} /\ call.due
    => /\ call.ok
       /\ call.value = call.expected

\* C29: GetCache returns false for a key that was never set and for a key
\* after CacheDelete(key), and CacheDelete(key) leaves under every other key
\* what a Get of it finds.
C29_MissAndFrame ==
    [][/\ call'.op = "GetCache" /\ call'.told \in {"never", "deleted"}
            => ~call'.ok
       /\ \A key \in CacheKeys :
            CacheDelete(key)
            => \A other \in CacheKeys \ {key} :
                  cache'.store[other] = cache.store[other]
    ]_vars

\* C30: Login answers with a session token only if, for the account it read
\* at its FindOne, the account is the one stored under the given email, its
\* lock is unset or not later than now, the password of the form verifies
\* against its credential and it is verified; no other step of Login, and
\* no other handler, hands out a token.
C30_TokenOnlyIfEligible ==
    [][\A w \in Workers :
          /\ \A e \in {EmailA}, p \in LoginPasswords :
                LoginFind(w, e, p)
                => /\ resp'[w].token = NoToken
                   /\ pc'[w] = "login_check"
                      => /\ local'[w].user.email = SanitizeInput(e)
                         /\ local'[w].password = p
                         /\ \E i \in DOMAIN users : users[i] = local'[w].user
          /\ resp'[w] # resp[w] /\ resp'[w].token # NoToken
             => LET u == local[w].user
                    cmp == Compared(local[w].password, u.password)
                IN
                /\ pc[w] = "login_check"
                /\ u.locked_until = NULL \/ ~(now < u.locked_until)
                /\ cmp.err = NoError /\ cmp.match
                /\ u.is_verified
                /\ resp'[w].token.sub = u.id
    ]_vars

\* One login to a verified account was answered with a token while another,
\* with the wrong password, was refused and counted.
C30_TokenBesideRefusal ==
    \E a, b \in Workers, u \in 1..Len(users) :
        /\ resp[a].code = 200 /\ resp[a].token # NoToken
        /\ resp[a].token.sub = users[u].id
        /\ users[u].is_verified
        /\ cause[b].why = "wrong_password" /\ resp[b].code = 401
        /\ users[u].login_attempts >= 1

\* C31: while the stored locked_until of an account is later than now, no
\* login step clears it or moves it to an earlier time, also not the step of
\* a login that read the account before the lock was written.
C31_LockStaysInForce ==
    [][\A w \in Workers :
          pc[w] = "login_check" /\ pc'[w] = "idle"
          => \A u \in 1..Len(users) :
                users[u].locked_until # NULL /\ now < users[u].locked_until
                => /\ users'[u].locked_until # NULL
                   /\ users'[u].locked_until >= users[u].locked_until
    ]_vars

\* C32: a run of the background rehash never changes which passwords the
\* stored credential of its account accepts, also when a password reset
\* completed between the accepted login and the rehash's write: a password
\* verifies against the credential after the run exactly if it did before.
C32_RehashKeepsPassword ==
    [][\A task \in tasks :
          /\ tasks' = tasks \ {task}
          /\ call'.op = "RehashPasswordIfNeeded"
          /\ call'.task = task
          => \A p \in LoginPasswords :
                Compared(p, users'[task.user.id].password).match
                   = Compared(p, users[task.user.id].password).match
    ]_vars


(***************************************************************************)
(* Two accounts and their verification codes.                              *)
(***************************************************************************)
\* Registrations of two emails, each with a code generateVerificationToken
\* may draw, and redemptions of the codes; one request at a time.
PairNext ==
    \/ Tick(VerificationTTL)
    \/ \E w \in Workers :
          /\ Alone(w)
          /\ \/ \E e \in {EmailA, EmailB}, c \in VerificationCodes,
                   s \in Salts :
                   /\ Len(users) <= MaxUsers
                   /\ RegisterChecks(w, e, PwA, c, s)
             \/ RegisterInsert(w)
             \/ RegisterCreateVerification(w, NoError)
             \/ \E t \in VerificationCodes : VerifyEmailBegin(w, t)
             \/ VerifyEmailFindUser(w)
             \/ VerifyEmailUpdateUser(w)
             \/ VerifyEmailMarkUsed(w, NoError)

PairSpec == Init /\ [][PairNext]_vars

\* C33: at any time at most one unused, unexpired record of
\* email_verifications holds a given secret, and at most one of
\* password_resets, so that the FindOne of a redemption can only find the
\* record of the account the secret was made for.
C33_OneRedeemablePerSecret ==
    /\ \A i, j \in DOMAIN verifs :
          Redeemable(verifs[i], verifs[j].token, now)
             /\ Redeemable(verifs[j], verifs[j].token, now)
          => i = j
    /\ \A i, j \in DOMAIN resets :
          Redeemable(resets[i], resets[j].token, now)
             /\ Redeemable(resets[j], resets[j].token, now)
          => i = j


(***************************************************************************)
(* Several reset links for one account.                                    *)
(***************************************************************************)
\* One secret more than the other specifications draw.
PairSecrets == {<<"a", HexDigits[i]>> : i \in 1..(MaxResets + 1)}

\* A verified account, requests for reset links and their redemptions, one
\* request at a time.
ResetPairNext ==
    \/ Tick(ResetTTL)
    \/ SignUp("w1")
    \/ \E w \in Workers :
          /\ Alone(w)
          /\ \/ \E t \in PairSecrets : ForgotPasswordBegin(w, EmailA, t)
             \/ ForgotPasswordInsert(w, NoError)
             \/ \E t \in PairSecrets : ResetPasswordBegin(w, t, PwB)
             \/ ResetPasswordFindUser(w)
             \/ \E s \in Salts : ResetPasswordUpdateUser(w, s)
             \/ ResetPasswordMarkUsed(w, NoError)

ResetPairSpec == Init /\ [][ResetPairNext]_vars

\* C34: when ResetPassword answers with its success for an account, no
\* record of password_resets for that account is redeemable any more: not
\* the one it redeemed and none that was requested before.
C34_ResetRevokesEarlierLinks ==
    [][\A w \in Workers :
          pc[w] = "reset_mark" /\ pc'[w] = "idle"
             /\ resp'[w] = ResetPasswordSuccess
          => \A i \in DOMAIN resets' :
                resets'[i].user_id = local[w].user.id
                => ~Redeemable(resets'[i], resets'[i].token, now')
    ]_vars


(***************************************************************************)
(* A reset and the logins around it.                                       *)
(***************************************************************************)
\* A verified account, logins, a reset link and its redemption, one request
\* at a time.
UnlockNext ==
    \/ SignUp("w1")
    \/ \E w \in Workers :
          /\ Alone(w)
          /\ \/ \E p \in LoginPasswords \cup TypedPasswords :
                   LoginFind(w, EmailA, p)
             \/ LoginCheck(w, 0)
             \/ \E t \in ResetSecrets : ForgotPasswordBegin(w, EmailA, t)
             \/ ForgotPasswordInsert(w, NoError)
             \/ \E t \in ResetSecrets, p \in TypedPasswords :
                   ResetPasswordBegin(w, t, p)
             \/ ResetPasswordFindUser(w)
             \/ \E s \in Salts : ResetPasswordUpdateUser(w, s)
             \/ ResetPasswordMarkUsed(w, NoError)

UnlockSpec == Init /\ [][UnlockNext]_vars

\* C35: the UpdateOne of a ResetPassword stores a credential that verifies
\* the new password the handler validated, sets login_attempts to 0 and
\* locked_until to null, so that a login with that password to the account,
\* locked or not before, is accepted from then on.
C35_ResetUnlocks ==
    [][\A w \in Workers :
          pc[w] = "reset_update" /\ pc'[w] = "reset_mark"
          => LET u == users'[local[w].user.id] IN
             /\ Compared(local[w].password, u.password).match
             /\ u.login_attempts = 0
             /\ u.locked_until = NULL
             /\ LoginBranch(u, local[w].password, now').branch = "accepted"
    ]_vars

\* A login was refused because the account was locked, and with the lock's
\* time not yet over a reset was redeemed and a login accepted.
C35_LockedThenResetThenAccepted ==
    /\ cause["w2"].why = "locked"
    /\ cause["w1"].why = "accepted"
    /\ resp["w1"].code = 200
    /\ \E i \in DOMAIN resets : resets[i].used /\ resets[i].user_id = 1
    /\ users[1].locked_until = NULL
    /\ now < LockMinutes * Minute

\* C36: for every new password a ResetPassword form carries and the handler
\* accepts, a login with exactly that string to the account as the reset
\* stores it (verified, unlocked, the credential made from what the handler
\* went on with) is accepted.
C36_LoginWithNewPassword ==
    [][\A w \in Workers, t \in ResetSecrets, p \in TypedPasswords :
          ResetPasswordBegin(w, t, p) /\ pc'[w] = "reset_user"
          => \A s \in Salts :
                LET stored == users[resets[local'[w].rec].user_id]
                    u == [stored EXCEPT
                             !.password =
                                 Hashed(local'[w].password, s).encodedHash,
                             !.login_attempts = 0,
                             !.locked_until = NULL]
                IN LoginBranch(u, p, now).branch = "accepted"
    ]_vars


(***************************************************************************)
(* ResendVerificationEmail                                                 *)
(***************************************************************************)
\* The FindOne in email_verifications by the email of the form, as it was
\* sent, SendVerificationEmail with the token of the record found and the
\* 200.  The cause holds the token that was mailed.
ResendVerificationEmail(w, email, mail) ==
    LET found == FindOne({i \in DOMAIN verifs : verifs[i].email = email}) IN
    /\ pc[w] = "idle"
    /\ IF found = 0
       THEN /\ Respond(w, Response(400, "Email verification not found"),
                       "verification_not_found")
            /\ UNCHANGED call
       ELSE /\ RespondAbout(w,
                  AfterSend(Response(200, "Registration successful. Please check your email to verify your account."), mail),
                  Cause("resent", verifs[found].token, FALSE))
            /\ LogSend("SendVerificationEmail", mail)
    /\ UNCHANGED <<http, tasks, cache, JWT_SECRET, now, ticks, users, verifs, resets,
                   hist, streak>>

\* A registration, redemptions of its code and requests for a new email,
\* one request at a time, over a day and more.
ResendNext ==
    \/ Tick(VerificationTTL)
    \/ SignUp("w1")
    \/ \E w \in Workers :
          /\ Alone(w)
          /\ \E e \in {EmailA, EmailB}, mail \in SendOutcomes :
                ResendVerificationEmail(w, e, mail)

ResendSpec == Init /\ [][ResendNext]_vars

\* C37: whenever ResendVerificationEmail answers 200 for the email of an
\* account that is not verified, the token it mails is that of an unused,
\* unexpired record, so that VerifyEmail would find it at that moment.
C37_ResentTokenRedeemable ==
    [][\A w \in Workers :
          /\ cause'[w] # cause[w]
          /\ cause'[w].why = "resent"
          /\ resp'[w].code = 200
          /\ (\E u \in DOMAIN users, i \in DOMAIN verifs :
                 /\ ~users[u].is_verified
                 /\ verifs[i].user_id = users[u].id
                 /\ verifs[i].token = cause'[w].secret)
          => (\E i \in DOMAIN verifs :
                 Redeemable(verifs[i], cause'[w].secret, now))
    ]_vars


(***************************************************************************)
(* UpdateUser                                                              *)
(***************************************************************************)
\* The ids a request body can carry: none (the empty string, 0 here), the
\* account's, another.
FormIDs == {0, 1, 2}

\* What json.Decode leaves in User{} for a body: id and email as sent; the
\* fields tagged json:"-" (password, is_verified, verified_at,
\* login_attempts, locked_until, last_login_at) keep their zero values.
UserForm(id, email) == NewUser(id, email, NoCred)

\* getUserID, the decoding of the body into User{} and
\* UpdateOne({_id: userID}, {$set: userForm}): the $set names every field of
\* the struct, _id among them.  The store refuses an update that would
\* change _id; one that matches no document changes nothing and is no
\* error.
UpdateUser(w, userID, userForm) ==
    /\ pc[w] = "idle"
    /\ IF userID = 0
       THEN /\ Respond(w, Response(401, "Unauthorized"), "no_user_id")
            /\ UNCHANGED users
       ELSE IF userID \in DOMAIN users /\ userForm.id # users[userID].id
       THEN /\ Respond(w, Response(500, "Failed to update user"),
                       "update_failed")
            /\ UNCHANGED users
       ELSE /\ users' = [i \in DOMAIN users |->
                            IF i = userID THEN userForm ELSE users[i]]
            /\ Respond(w, Response(200, "user"), "user_updated")
    /\ UNCHANGED <<http, tasks, cache, call, JWT_SECRET, now, ticks, verifs, resets,
                   hist, streak>>

\* A verified account, logins to it and updates of its profile, one request
\* at a time.
ProfileNext ==
    \/ SignUp("w1")
    \/ \E w \in Workers :
          /\ Alone(w)
          /\ \/ \E p \in LoginPasswords : LoginFind(w, EmailA, p)
             \/ LoginCheck(w, 0)
             \/ \E userID \in {0, 1}, id \in FormIDs, e \in {EmailA, EmailB} :
                   UpdateUser(w, userID, UserForm(id, e))

ProfileSpec == Init /\ [][ProfileNext]_vars

\* C38: an UpdateUser request, whatever its body, leaves the password,
\* is_verified, login_attempts and locked_until of every stored account as
\* they were.
C38_UpdateKeepsAccountState ==
    [][\A w \in Workers, userID \in {0, 1}, id \in FormIDs,
          e \in {EmailA, EmailB} :
          UpdateUser(w, userID, UserForm(id, e))
          => \A i \in DOMAIN users :
                /\ users'[i].password = users[i].password
                /\ users'[i].is_verified = users[i].is_verified
                /\ users'[i].login_attempts = users[i].login_attempts
                /\ users'[i].locked_until = users[i].locked_until
    ]_vars


(***************************************************************************)
(* CacheResponseWriter and CacheResponseWriterPool                         *)
(***************************************************************************)
\* make([]byte, 0, 1024) in Get, and the limit of Put.
InitialBodyCap == 1024
MaxPooledBodyCap == 8192

\* What handlers write in one call: more than a new writer has room for,
\* and more than a writer may have room for to be pooled.
Medium == [i \in 1..(InitialBodyCap + 1) |-> "m"]
Big == [i \in 1..(MaxPooledBodyCap + 1) |-> "x"]
WriteData == {Medium, Big}

\* The http.ResponseWriter of a request.
ResponseWriters == {"rw1", "rw2"}

\* The status codes handlers answer with.
StatusCodes == {200, 201, 404, 500}

\* append(w.body, data...): the capacity stays while the array has room;
\* otherwise the runtime allocates an array that holds at least what is
\* needed, and how much more is its choice.
GrownCaps(cap, needed) ==
    IF needed <= cap THEN {cap}
    ELSE {needed, IF 2 * cap > needed THEN 2 * cap ELSE needed}

\* (*CacheResponseWriter).Write, for what it does to the writer.
Write(cw, data, cap) == [cw EXCEPT !.body = @ \o data, !.cap = cap]

\* (*CacheResponseWriter).WriteHeader, for what it does to the writer.
WriteHeader(cw, statusCode) == [cw EXCEPT !.statusCode = statusCode]

\* Get without the writer.body[:0].
PoolGetKeepsBody(p, rw) ==
    IF p.pool # <<>>
    THEN [writer |-> [Head(p.pool) EXCEPT !.ResponseWriter = rw,
                                          !.statusCode = 200,
                                          !.headers = {}],
          pool |-> [p EXCEPT !.pool = Tail(@)]]
    ELSE [writer |-> [ResponseWriter |-> rw, body |-> <<>>,
                      cap |-> InitialBodyCap, statusCode |-> 200,
                      headers |-> {}],
          pool |-> p]

\* (*CacheResponseWriterPool).Get(rw): the select takes the first writer of
\* the channel and resets it, or with an empty channel makes a new one.
PoolGet(p, rw) ==
    IF p.pool # <<>>
    THEN [writer |-> [Head(p.pool) EXCEPT !.ResponseWriter = rw,
                                          !.body = <<>>,
                                          !.statusCode = 200,
                                          !.headers = {}],
          pool |-> [p EXCEPT !.pool = Tail(@)]]
    ELSE [writer |-> [ResponseWriter |-> rw, body |-> <<>>,
                      cap |-> InitialBodyCap, statusCode |-> 200,
                      headers |-> {}],
          pool |-> p]

\* (*CacheResponseWriterPool).Put(writer): the select sends the writer when
\* its body's capacity is within the limit and the channel has room, and
\* drops it otherwise.
PoolPut(p, cw) ==
    IF cw.cap <= MaxPooledBodyCap /\ Len(p.pool) < p.size
    THEN [p EXCEPT !.pool = Append(@, cw)]
    ELSE p

\* What the pool's callers leave alone.
PoolFrame ==
    UNCHANGED <<JWT_SECRET, now, ticks, users, verifs, resets, local, resp,
                cause, hist, streak, tasks, cache, served>>

\* writer := poolToUse.Get(w) of a request.
GetWriter(w, rw) ==
    /\ pc[w] = "idle"
    /\ pc' = [pc EXCEPT ![w] = "held"]
    /\ writer' = [writer EXCEPT ![w] = PoolGet(writerPool, rw).writer]
    /\ writerPool' = PoolGet(writerPool, rw).pool
    /\ call' = [op |-> "Get", rw |-> rw]
    /\ PoolFrame

\* The wrapped handler calls WriteHeader, before it writes.
HandlerWriteHeader(w, statusCode) ==
    /\ pc[w] = "held"
    /\ writer[w].statusCode # statusCode
    /\ writer' = [writer EXCEPT ![w] = WriteHeader(@, statusCode)]
    /\ UNCHANGED <<pc, writerPool, call>>
    /\ PoolFrame

\* The wrapped handler calls Write, twice at most and for no more than Big
\* holds.
HandlerWrite(w, data) ==
    /\ pc[w] \in {"held", "wrote"}
    /\ Len(writer[w].body) + Len(data) <= Len(Big)
    /\ \E cap \in GrownCaps(writer[w].cap, Len(writer[w].body) + Len(data)) :
          writer' = [writer EXCEPT ![w] = Write(@, data, cap)]
    /\ pc' = [pc EXCEPT ![w] = IF pc[w] = "held" THEN "wrote" ELSE "wrote_twice"]
    /\ UNCHANGED <<writerPool, call>>
    /\ PoolFrame

\* The deferred poolToUse.Put(writer).
PutWriter(w) ==
    /\ pc[w] \in {"held", "wrote", "wrote_twice"}
    /\ writerPool' = PoolPut(writerPool, writer[w])
    /\ writer' = [writer EXCEPT ![w] = NoWriter]
    /\ pc' = [pc EXCEPT ![w] = "idle"]
    /\ call' = [op |-> "Put", rw |-> writer[w].ResponseWriter,
                cap |-> writer[w].cap]
    /\ PoolFrame

\* Requests that miss the cache, concurrently: each takes a writer, lets
\* its handler write and gives the writer back.
PoolNext ==
    \E w \in Workers :
       \/ \E rw \in ResponseWriters : GetWriter(w, rw)
       \/ \E statusCode \in StatusCodes : HandlerWriteHeader(w, statusCode)
       \/ \E data \in WriteData : HandlerWrite(w, data)
       \/ PutWriter(w)

PoolSpec == CacheInit /\ [][PoolNext]_vars

\* C40: the pool never holds more than size writers; a Put is possible
\* whenever a worker holds a writer, and leaves the pool as it is for a
\* writer whose body has a capacity above 8192; a Get hands out a writer
\* bound to the ResponseWriter it was given, with an empty body, status 200
\* and no headers.
C40_PoolKeepsWritersApart ==
    [][/\ Len(writerPool'.pool) <= writerPool'.size
       /\ \A w \in Workers :
            /\ pc[w] # "idle" => ENABLED PutWriter(w)
            /\ pc[w] # "idle" /\ pc'[w] = "idle"
                  /\ writer[w].cap > MaxPooledBodyCap
               => writerPool' = writerPool
            /\ pc[w] = "idle" /\ pc'[w] = "held"
               => /\ writer'[w].ResponseWriter = call'.rw
                  /\ writer'[w].body = <<>>
                  /\ writer'[w].statusCode = 200
                  /\ writer'[w].headers = {}
    ]_vars

\* A worker holds a writer that came from the pool, where it lay with the
\* body of an earlier response, while the other worker's Put has just
\* dropped a writer whose body had grown beyond the limit.
C40_ReusedWriterIsClean ==
    /\ pc["w1"] = "held"
    /\ writer["w1"].cap > InitialBodyCap
    /\ writer["w1"].body = <<>>
    /\ pc["w2"] = "idle"
    /\ call.op = "Put"
    /\ call.cap > MaxPooledBodyCap
    /\ writerPool.pool = <<>>


(***************************************************************************)
(* CacheMiddleware                                                         *)
(***************************************************************************)
\* The requests: their method, and the path and the raw query of their URL.
Methods == {"GET", "POST"}
RequestURLs ==
    {[Path |-> "/a", RawQuery |-> "b:c"], [Path |-> "/a:b", RawQuery |-> "c"]}

\* The cache the middleware was made with: a cache, or nil.
MiddlewareCaches == {"cache", "nil"}

\* What the wrapped handler does with its http.ResponseWriter: it sets the
\* Content-Type header, or none, calls WriteHeader and writes its body.
HandlerResponses ==
    {[StatusCode |-> 200, ContentType |-> ApplicationJSON, Body |-> BodyA],
     [StatusCode |-> 200, ContentType |-> <<>>, Body |-> BodyB],
     [StatusCode |-> 404, ContentType |-> ApplicationJSON, Body |-> BodyB]}

\* CacheKey("http", r.URL.Path, r.URL.RawQuery): strings.Join(components,
\* ":"), for the URLs of the model.
CacheKey(prefix, Path, RawQuery) ==
    CASE prefix = "http" /\ Path = "/a" /\ RawQuery = "b:c" -> "http:/a:b:c"
      [] prefix = "http" /\ Path = "/a:b" /\ RawQuery = "c" -> "http:/a:b:c"

\* http.DetectContentType: a text that starts with none of the signatures
\* of the sniffing algorithm is text/plain; the bodies of the model are
\* such texts.
DetectContentType(data) ==
    IF \A i \in 1..Len(data) : CharCode(data[i]) # 0 THEN TextPlain
    ELSE <<"application/octet-stream">>

\* What net/http sends to the client for a status, the headers set before
\* WriteHeader and a body: a body without a Content-Type header gets the
\* type DetectContentType finds.
Sent(StatusCode, ContentType, XCache, Body) ==
    [code |-> StatusCode,
     content_type |-> IF ContentType # <<>> THEN ContentType
                      ELSE IF Body = <<>> THEN <<>>
                      ELSE DetectContentType(Body),
     x_cache |-> XCache,
     body |-> Body]

\* What a request through the middleware came to: passed on, hit or miss,
\* whether the wrapped handler ran, and what the client received.
Exchange(method, key, outcome, invoked, sent) ==
    [op |-> "CacheMiddleware", method |-> method, key |-> key,
     outcome |-> outcome, invoked |-> invoked, sent |-> sent]

\* The miss: the writer of the pool wraps the ResponseWriter, the handler
\* answers through it, a response with a status of 200 to 299 goes to the
\* cache with what the writer captured, and the writer goes back to the
\* pool.  The X-Cache header is set after the handler has sent its headers.
CacheMiss(method, cacheKey, handled, ttl, cw) ==
    LET stores == cw.statusCode >= 200 /\ cw.statusCode < 300
        cachedResponse == CachedResponse(cw.statusCode, handled.ContentType,
                                         cw.headers, cw.body)
        sent == Sent(handled.StatusCode, handled.ContentType, "", handled.Body)
    IN
    /\ cache' = IF stores
                THEN CacheAfterSet("json", cacheKey, cachedResponse,
                                   jsonMarshal(cachedResponse), ttl)
                ELSE cache
    /\ served' = IF stores
                 THEN [served EXCEPT ![cacheKey] = @ \cup {sent}]
                 ELSE served
    /\ writerPool' = PoolPut(PoolGet(writerPool, "w").pool, cw)
    /\ call' = Exchange(method, cacheKey, "miss", TRUE, sent)

\* The hit: the headers of the cached response, X-Cache, WriteHeader with
\* the cached status and Write with the cached body.
CacheHit(method, cacheKey, cachedResponse) ==
    /\ call' = Exchange(method, cacheKey, "hit", FALSE,
                        Sent(cachedResponse.StatusCode, <<>>, "HIT",
                             cachedResponse.Body))
    /\ UNCHANGED <<cache, served, writerPool>>

\* The handler CacheMiddleware(cache, ttl, nil)(next) returns, for one
\* request and the answer next gives to it.
CacheMiddleware(c, method, url, handled, ttl) ==
    LET cacheKey == CacheKey("http", url.Path, url.RawQuery) IN
    /\ IF method # "GET" \/ c = "nil"
       THEN /\ call' = Exchange(method, cacheKey, "passed", TRUE,
                          Sent(handled.StatusCode, handled.ContentType, "",
                               handled.Body))
            /\ UNCHANGED <<cache, served, writerPool>>
       ELSE IF Lookup("json", cacheKey, "CachedResponse").ok
       THEN CacheHit(method, cacheKey,
                     Lookup("json", cacheKey, "CachedResponse").value.val)
       ELSE \E cap \in GrownCaps(PoolGet(writerPool, "w").writer.cap,
                                 Len(handled.Body)) :
               CacheMiss(method, cacheKey, handled, ttl,
                         Write(WriteHeader(PoolGet(writerPool, "w").writer,
                                           handled.StatusCode),
                               handled.Body, cap))
    /\ UNCHANGED <<JWT_SECRET, now, ticks, users, verifs, resets, pc, local,
                   resp, cause, hist, streak, tasks, writer>>

\* Requests through the middleware, one after the other, the cache's
\* goroutine and the clock.
MiddlewareNext ==
    \/ Tick(2 * Hour)
    \/ processItems
    \/ \E c \in MiddlewareCaches, method \in Methods, url \in RequestURLs,
          handled \in HandlerResponses :
          CacheMiddleware(c, method, url, handled, Hour)

MiddlewareSpec == CacheInit /\ [][MiddlewareNext]_vars

\* C39: a request the middleware answers from the cache does not reach the
\* wrapped handler and receives the status, the body and the Content-Type
\* of a response the handler gave when the middleware stored it under that
\* key; and the middleware changes the cache only for a GET request that
\* the handler answered with a status of 200 to 299.
C39_MiddlewareTransparent ==
    [][\A c \in MiddlewareCaches, method \in Methods, url \in RequestURLs,
          handled \in HandlerResponses :
          CacheMiddleware(c, method, url, handled, Hour)
          => /\ call'.outcome = "hit"
                => /\ ~call'.invoked
                   /\ \E h \in served[call'.key] :
                         /\ h.code = call'.sent.code
                         /\ h.body = call'.sent.body
                         /\ h.content_type = call'.sent.content_type
             /\ cache' # cache
                => /\ method = "GET"
                   /\ handled.StatusCode >= 200
                   /\ handled.StatusCode < 300
    ]_vars

=============================================================================
